---- MODULE Spec2Model ----
(***************************************************************************)
(* Orchestrate: the Express/Mongoose backend (Employee, Event and Task     *)
(* collections, the authenticateUser middleware, the assignee-facing and   *)
(* creator/admin-facing task controllers) and the ReportsHome aggregation  *)
(* of the React client.                                                    *)
(*                                                                         *)
(* Documents are kept in insertion order; the _id of a document is its     *)
(* position in its collection (no controller deletes a document).          *)
(***************************************************************************)
EXTENDS Integers, Sequences, FiniteSets, TLC

----------------------------------------------------------------------------
(* Bounds of the model *)

MaxTasks == 1
MaxEvents == 1
MaxComments == 2
MaxClock == 1
MaxAttendees == 2
MaxListed == 25
MaxRecords == 2

\* Clicks on the payment button
MaxRuns == 2

\* Tasks in the form of EventForm
MaxFormTasks == 2

\* Messages of the push channel under way at a time
MaxFeed == 2

(* Program constants *)

\* const limit = 10 in getTasks
PageLimit == 10

\* enum of taskSchema.status
StatusEnum == {"Pending", "In Progress", "Completed"}

\* default of taskSchema.status
DefaultStatus == "Pending"

\* default of taskSchema.deadline (null sorts before every date)
NullDate == 0

----------------------------------------------------------------------------
(* Sets the requests are drawn from *)

Clients == {1, 2}

\* employeeSchema documents as imported into the employees collection
SeedEmployees ==
    << [email |-> "a@x", name |-> "Ann", role |-> "admin", team |-> "General"],
       [email |-> "m@x", name |-> "Max", role |-> "manager", team |-> "Ops"],
       [email |-> "e@x", name |-> "Eve", role |-> "employee", team |-> "Ops"] >>

\* Identifiers in a URL: 0 stands for a malformed one (not 24 hex characters),
\* a positive number for a well-formed ObjectId
BadId == 0

\* mongoose.Types.ObjectId.isValid
IsValidObjectId(id) == id >= 1

\* A token string: sig tells who produced it ("absent": no such cookie or header,
\* "empty": the empty string, "garbage": no JWT at all, "forged": a JWT signed
\* with another secret, "good": a JWT signed with JWT_SECRET)
Token(sig, expired, id) == [sig |-> sig, expired |-> expired, id |-> id]
NoToken == Token("absent", FALSE, 0)
EmptyToken == Token("empty", FALSE, 0)
GarbageToken == Token("garbage", FALSE, 0)

\* cookies.token of a request
CookieValues == {NoToken, GarbageToken, Token("good", FALSE, 2), Token("good", TRUE, 3)}

\* A header string is a sequence of pieces: a literal text, a whole token string,
\* or the start or the rest of a token string cut in two
Literal(lit) == [lit |-> lit, part |-> "none", tok |-> NoToken]
WholeToken(tok) == [lit |-> "", part |-> "whole", tok |-> tok]
TokenStart(tok) == [lit |-> "", part |-> "start", tok |-> tok]
TokenRest(tok) == [lit |-> "", part |-> "rest", tok |-> tok]

\* The Authorization header of a request: absent, or the string scheme ++ tok
\* (scheme "" is a header that holds the token alone)
NoHeader == [present |-> FALSE, text |-> << >>]
Header(scheme, tok) ==
    [present |-> TRUE,
     text |-> (IF scheme = "" THEN << >> ELSE << Literal(scheme) >>) \o << WholeToken(tok) >>]

\* The header that holds the token string with "Bearer " inside it
BearerInside(tok) ==
    [present |-> TRUE, text |-> << TokenStart(tok), Literal("Bearer "), TokenRest(tok) >>]

\* The header "Bearer Bearer " ++ tok
BearerTwice(tok) ==
    [present |-> TRUE, text |-> << Literal("Bearer "), Literal("Bearer "), WholeToken(tok) >>]

HeaderValues ==
    { NoHeader }
    \cup { Header("Bearer ", t) :
             t \in { EmptyToken, GarbageToken, Token("good", FALSE, 3),
                     Token("good", FALSE, 9), Token("forged", FALSE, 3),
                     Token("good", TRUE, 3) } }
    \cup { Header("", t) : t \in { Token("good", FALSE, 3), Token("good", TRUE, 3) } }
    \cup { Header("Basic ", Token("good", FALSE, 3)),
           BearerInside(Token("good", FALSE, 3)), BearerTwice(Token("good", FALSE, 3)) }

VARIABLES
    employees,    \* Employee collection
    events,       \* Event collection
    tasks,        \* Task collection
    clock,        \* Date.now() of the server
    inflight,     \* per client: the handler suspended at an await, or Null
    resp,         \* the last response sent
    lastSet,      \* history: per task, the last status-update request and its answer
    returned,     \* history: per task, the comments whose append answered 201, in order
    overlapped,   \* history: per task, whether two comment appends ever overlapped
    fetched,      \* ReportsHome: response.data of GET /api/events/compiledReport
    reportData,   \* ReportsHome: state reportData
    budgetByTeam, \* ReportsHome: state budgetByTeam
    phase,        \* ReportsHome: how far the component got
    req,          \* history: the last request received and how it was handled
    form,         \* EventForm: the state of the component and the payload it posted
    pay,          \* RazorpayButton: the runs of handlePayment and the flag isRSVPd
    panel,        \* NotificationPanel: its list, its fetches and the pushes under way
    ctx,          \* EventContext: the tasks on display and the fetches under way
    chat          \* Chat: input, loading and the requests under way

store == <<employees, events, tasks>>
history == <<lastSet, returned, overlapped>>
reports == <<fetched, reportData, budgetByTeam, phase>>
client == <<form, pay, panel, ctx, chat>>
vars == <<employees, events, tasks, clock, inflight, resp, lastSet, returned,
          overlapped, fetched, reportData, budgetByTeam, phase, req, form, pay,
          panel, ctx, chat>>

Response(op, code, id, body) == [op |-> op, code |-> code, body |-> body]

Idle == [kind |-> "idle"]

NoBody == [kind |-> "none"]

NoRequest == [op |-> "none"]

\* The components that are not mounted
NotMounted == [mounted |-> FALSE]

NoUser == [id |-> 0, email |-> "", name |-> "", role |-> "", team |-> ""]

----------------------------------------------------------------------------
(* authenticateUser middleware *)

RECURSIVE replace(_, _)
\* String.prototype.replace(pattern, ""): the string without the first occurrence
\* of the pattern, wherever it stands (a token string holds no space, so "Bearer "
\* occurs only as a literal piece)
replace(text, pattern) ==
    IF text = << >> THEN << >>
    ELSE IF Head(text) = Literal(pattern) THEN Tail(text)
    ELSE << Head(text) >> \o replace(Tail(text), pattern)

\* The token a string is: the empty string, a token string in one piece or in its
\* two parts put together, and otherwise a string that is no JWT
TokenOfString(text) ==
    LET t == SelectSeq(text, LAMBDA p : p \notin {Literal(""), WholeToken(EmptyToken)}) IN
    IF t = << >> THEN EmptyToken
    ELSE IF Len(t) = 1 /\ t[1].part = "whole" THEN t[1].tok
    ELSE IF /\ Len(t) = 2
            /\ t[1].part = "start" /\ t[2].part = "rest"
            /\ t[1].tok = t[2].tok
         THEN t[1].tok
    ELSE GarbageToken

\* As HeaderToken, dropping every literal piece of the header
HeaderTokenAnyScheme(h) ==
    IF ~h.present THEN NoToken
    ELSE TokenOfString(SelectSeq(h.text, LAMBDA p : p.part # "none"))

\* authRequest.header("Authorization")?.replace("Bearer ", ""): undefined without
\* the header; the first "Bearer " is removed wherever it stands and a header
\* that holds the token alone is left as it is; a header of another scheme keeps
\* its scheme in the string, which is then no JWT
HeaderToken(h) ==
    IF ~h.present THEN NoToken
    ELSE TokenOfString(replace(h.text, "Bearer "))

\* !token of a string that may be undefined
Falsy(tok) == tok.sig \in {"absent", "empty"}

\* As RequestToken, with the Authorization header before the cookie
RequestTokenHeaderFirst(cookie, header) ==
    IF ~Falsy(HeaderToken(header)) THEN HeaderToken(header) ELSE cookie

\* authRequest.cookies?.token || authRequest.header("Authorization")?.replace(...)
RequestToken(cookie, header) ==
    IF ~Falsy(cookie) THEN cookie ELSE HeaderToken(header)

\* As JwtVerifies, without the check of the expiry
JwtVerifiesIgnoringExpiry(tok) == tok.sig = "good"

\* jwt.verify(token, JWT_SECRET) returns (does not throw)
JwtVerifies(tok) == tok.sig = "good" /\ ~tok.expired

\* Employee.findById(decoded.id) finds a document
EmployeeExists(id) == id \in 1..Len(employees)

\* The outcome of the middleware: next = TRUE when nextMiddleware() is called with
\* request.user set, otherwise the status code it answers with
authenticateUser(cookie, header) ==
    LET token == RequestToken(cookie, header) IN
    IF Falsy(token) THEN [next |-> FALSE, code |-> 401, user |-> NoUser]
    ELSE IF ~JwtVerifies(token) THEN [next |-> FALSE, code |-> 401, user |-> NoUser]
    ELSE IF ~EmployeeExists(token.id) THEN [next |-> FALSE, code |-> 401, user |-> NoUser]
    ELSE [next |-> TRUE, code |-> 0,
          user |-> [id |-> token.id,
                    email |-> employees[token.id].email,
                    name |-> employees[token.id].name,
                    role |-> employees[token.id].role,
                    team |-> employees[token.id].team]]

----------------------------------------------------------------------------
(* POST /api/events: authenticateUser, then createEvent *)

TaskPayload(assignee, deadline) == [assignee |-> assignee, deadline |-> deadline, budget |-> 0]

\* Event payloads as EventForm builds them (availableSlots 0 stands for null)
EventBodies ==
    { [eventType |-> "limited-entry", availableSlots |-> 1, team |-> "", totalBudget |-> 100,
       tasks |-> << >>],
      [eventType |-> "team-specific", availableSlots |-> 0, team |-> "Ops", totalBudget |-> 50,
       tasks |-> << TaskPayload("e@x", NullDate) >>],
      [eventType |-> "firm-wide", availableSlots |-> 0, team |-> "", totalBudget |-> 0,
       tasks |-> << TaskPayload("e@x", 2), TaskPayload("m@x", 1) >>] }

\* The Event document createEvent stores for a payload
NewEvent(body, user) ==
    [eventType |-> body.eventType, availableSlots |-> body.availableSlots,
     team |-> body.team, totalBudget |-> body.totalBudget,
     attendees |-> << >>, creator |-> user.email]

\* The Task document createEvent stores for a task of the payload; the schema's
\* { timestamps: true } adds createdAt and updatedAt
NewTask(payload, eventID, user, now) ==
    [eventID |-> eventID, status |-> DefaultStatus, budget |-> payload.budget,
     creator |-> user.email, assignee |-> payload.assignee,
     deadline |-> payload.deadline, createdAt |-> now, updatedAt |-> now,
     comments |-> << >>]

\* createEvent: persists the event and one task per task of the payload
createEvent(body, user) ==
    /\ Len(events) < MaxEvents
    /\ Len(tasks) + Len(body.tasks) <= MaxTasks
    /\ events' = Append(events, NewEvent(body, user))
    /\ tasks' = tasks \o [i \in 1..Len(body.tasks) |->
                            NewTask(body.tasks[i], Len(events) + 1, user, clock)]
    /\ lastSet' = lastSet \o [i \in 1..Len(body.tasks) |-> [status |-> "", code |-> 0]]
    /\ returned' = returned \o [i \in 1..Len(body.tasks) |-> << >>]
    /\ overlapped' = overlapped \o [i \in 1..Len(body.tasks) |-> FALSE]
    /\ UNCHANGED employees

\* A token that authenticates nobody: absent, malformed, forged, expired, or of
\* no existing Employee
InvalidToken(tok) ==
    tok.sig # "good" \/ tok.expired \/ tok.id \notin 1..Len(employees)

\* The credential of an Authorization header: what its string holds besides
\* "Bearer " (nothing without the header)
HeaderCredential(header) ==
    IF header.present
    THEN LET at == {k \in 1..Len(header.text) : header.text[k] = Literal("Bearer ")} IN
         IF at = {} THEN TokenOfString(header.text)
         ELSE LET first == CHOOSE k \in at : \A j \in at : k <= j IN
              TokenOfString([k \in 1..(Len(header.text) - 1) |->
                               header.text[IF k < first THEN k ELSE k + 1]])
    ELSE NoToken

\* A request without a valid credential, in its cookie and in its header
NoValidCredential(cookie, header) ==
    /\ InvalidToken(cookie)
    /\ InvalidToken(HeaderCredential(header))

\* A response together with a history field: whether the request it answers
\* carried a valid credential
Answered(response, cookie, header) ==
    [op |-> response.op, code |-> response.code, body |-> response.body,
     credential |-> ~NoValidCredential(cookie, header)]

\* The route: createEvent runs (and answers 201) only when the middleware calls next
PostEvent(cookie, header, body) ==
    LET auth == authenticateUser(cookie, header) IN
    /\ IF auth.next
       THEN /\ createEvent(body, auth.user)
            /\ resp' = Answered(Response("createEvent", 201, Len(events) + 1, NoBody),
                                cookie, header)
       ELSE /\ resp' = Answered(Response("createEvent", auth.code, 0, NoBody),
                                cookie, header)
            /\ UNCHANGED <<store, history>>
    /\ UNCHANGED <<clock, inflight, reports>>

----------------------------------------------------------------------------
(* PATCH /api/tasks/:taskId/status *)

\* Task.findById(id) finds a document
TaskExists(id) == id \in 1..Len(tasks)

\* The place of a status in the order Pending, In Progress, Completed
StatusRank(status) ==
    IF status = "Pending" THEN 1 ELSE IF status = "In Progress" THEN 2 ELSE 3

\* As SetStatus, refusing to move a task back to an earlier status
SetStatusForwardOnly(task, status, now) ==
    IF StatusRank(status) >= StatusRank(task.status)
    THEN [task EXCEPT !.status = status, !.updatedAt = now] ELSE task

\* As SetStatus, replacing the document by one that holds the new status only
SetStatusReplacingDocument(task, status, now) ==
    [task EXCEPT !.status = status, !.updatedAt = now, !.comments = << >>]

\* The update findByIdAndUpdate(taskId, { status }) sends (update validators are
\* off): { $set: { status, updatedAt } }, the timestamps of the schema adding the
\* time of the call
SetStatus(task, status, now) == [task EXCEPT !.status = status, !.updatedAt = now]

\* As updateTaskStatus, looking at the status only after the update
updateTaskStatusUncheckedWrite(taskId, status) ==
    /\ IF ~IsValidObjectId(taskId) THEN
          /\ resp' = Response("updateTaskStatus", 400, taskId, NoBody)
          /\ UNCHANGED <<tasks, lastSet>>
       ELSE IF ~TaskExists(taskId) THEN
          /\ resp' = Response("updateTaskStatus", 404, taskId, NoBody)
          /\ UNCHANGED <<tasks, lastSet>>
       ELSE
          /\ tasks' = [tasks EXCEPT ![taskId] = SetStatus(@, status, clock)]
          /\ resp' = Response("updateTaskStatus", IF status = "" THEN 400 ELSE 200,
                              taskId, NoBody)
          /\ lastSet' = [lastSet EXCEPT ![taskId] = [status |-> status, code |-> resp'.code]]
    /\ UNCHANGED <<employees, events, clock, inflight, returned, overlapped, reports>>

\* status "" stands for a body without status
updateTaskStatus(taskId, status) ==
    /\ IF status = "" THEN
          /\ resp' = Response("updateTaskStatus", 400, taskId, NoBody)
          /\ UNCHANGED <<tasks, lastSet>>
       ELSE IF ~IsValidObjectId(taskId) THEN
          /\ resp' = Response("updateTaskStatus", 400, taskId, NoBody)
          /\ UNCHANGED <<tasks, lastSet>>
       ELSE IF ~TaskExists(taskId) THEN
          /\ resp' = Response("updateTaskStatus", 404, taskId, NoBody)
          /\ UNCHANGED <<tasks, lastSet>>
       ELSE
          /\ tasks' = [tasks EXCEPT ![taskId] = SetStatus(@, status, clock)]
          /\ resp' = Response("updateTaskStatus", 200, taskId, NoBody)
          /\ lastSet' = [lastSet EXCEPT ![taskId] = [status |-> status, code |-> resp'.code]]
    /\ UNCHANGED <<employees, events, clock, inflight, returned, overlapped, reports>>

----------------------------------------------------------------------------
(* POST /api/tasks/assigned/:taskId/comments and POST /api/admin/:id/comments *)

\* The comment appends on task id that loaded the task and have not saved yet
PendingPushes(id) ==
    Cardinality({c \in Clients : inflight[c].kind \in {"found", "comment"} /\ inflight[c].id = id})

RECURSIVE StoredComments(_)
\* The number of comments stored on the tasks 1..n
StoredComments(n) == IF n = 0 THEN 0 ELSE Len(tasks[n].comments) + StoredComments(n - 1)

AllPendingPushes == Cardinality({c \in Clients : inflight[c].kind \in {"found", "comment"}})

\* { author, message, timestamp: new Date().toISOString() }
NewComment(author, message, now) == [author |-> author, message |-> message, timestamp |-> now]

\* task.comments.push(newComment) on the loaded document
PushComment(doc, comment) == [doc EXCEPT !.comments = Append(@, comment)]

\* await Task.findById(id): the handler is suspended with what the query read, the
\* stored document or nothing
AwaitFindById(c, ep, id, author, message) ==
    /\ IF TaskExists(id) THEN
          /\ StoredComments(Len(tasks)) + AllPendingPushes < MaxComments
          /\ inflight' = [inflight EXCEPT ![c] =
                            [kind |-> "found", ep |-> ep, id |-> id, author |-> author,
                             message |-> message, doc |-> tasks[id]]]
          /\ overlapped' = [overlapped EXCEPT ![id] = @ \/ PendingPushes(id) > 0]
       ELSE
          /\ inflight' = [inflight EXCEPT ![c] =
                            [kind |-> "missing", ep |-> ep, id |-> id, author |-> author,
                             message |-> message]]
          /\ UNCHANGED overlapped
    /\ UNCHANGED <<resp, returned>>

\* The handler resumes after findById: without a task it answers 404; with one it
\* builds the comment with the time of now, pushes it on the loaded document and
\* awaits task.save(), whose timestamps hook sets updatedAt on the modified
\* document
AwaitSave(c) ==
    /\ inflight[c].kind \in {"found", "missing"}
    /\ IF inflight[c].kind = "missing" THEN
          /\ resp' = Response(inflight[c].ep, 404, inflight[c].id, NoBody)
          /\ inflight' = [inflight EXCEPT ![c] = Idle]
       ELSE
          /\ inflight' = [inflight EXCEPT ![c] =
                [kind |-> "comment", ep |-> inflight[c].ep, id |-> inflight[c].id,
                 doc |-> [PushComment(inflight[c].doc,
                             NewComment(inflight[c].author, inflight[c].message, clock))
                          EXCEPT !.updatedAt = clock],
                 pushed |-> << NewComment(inflight[c].author, inflight[c].message, clock) >>]]
          /\ UNCHANGED resp
    /\ UNCHANGED <<store, clock, history, reports>>

\* userEmail "" stands for no user-email header, message "" for no message
addCommentToTask_Assignee(c, taskId, userEmail, message) ==
    /\ inflight[c] = Idle
    /\ IF ~IsValidObjectId(taskId) THEN
          /\ resp' = Response("addCommentToTask_Assignee", 400, taskId, NoBody)
          /\ UNCHANGED <<inflight, overlapped, returned>>
       ELSE IF userEmail = "" \/ message = "" THEN
          /\ resp' = Response("addCommentToTask_Assignee", 400, taskId, NoBody)
          /\ UNCHANGED <<inflight, overlapped, returned>>
       ELSE AwaitFindById(c, "addCommentToTask_Assignee", taskId, userEmail, message)
    /\ UNCHANGED <<store, clock, lastSet, reports>>

\* author "" stands for a body without author; findById of a malformed id throws a
\* CastError, caught as 500
addCommentToTask(c, id, author, message) ==
    /\ inflight[c] = Idle
    /\ IF author = "" \/ message = "" THEN
          /\ resp' = Response("addCommentToTask", 400, id, NoBody)
          /\ UNCHANGED <<inflight, overlapped, returned>>
       ELSE IF ~IsValidObjectId(id) THEN
          /\ resp' = Response("addCommentToTask", 500, id, NoBody)
          /\ UNCHANGED <<inflight, overlapped, returned>>
       ELSE AwaitFindById(c, "addCommentToTask", id, author, message)
    /\ UNCHANGED <<store, clock, lastSet, reports>>

\* As SaveTask, putting the pushed comments first
SaveTaskPrepend(stored, doc, pushed) ==
    [stored EXCEPT !.comments = pushed \o @, !.updatedAt = doc.updatedAt]

\* As SaveTask, writing the comments array of the loaded document
SaveTaskSetArray(stored, doc, pushed) ==
    [stored EXCEPT !.comments = doc.comments, !.updatedAt = doc.updatedAt]

\* As SaveTask, writing the whole loaded document back
SaveTaskWhole(stored, doc, pushed) == doc

\* What task.save() writes: the modified paths of the loaded document only, here
\* { $push: { comments: { $each: pushed } }, $set: { updatedAt } } applied to the
\* stored document
SaveTask(stored, doc, pushed) ==
    [stored EXCEPT !.comments = @ \o pushed, !.updatedAt = doc.updatedAt]

\* task.save() found the loaded document valid and completes: the handler answers
\* 201 with the loaded document
SaveComment(c) ==
    /\ inflight[c].kind = "comment"
    /\ inflight[c].doc.status \in StatusEnum
    /\ tasks' = [tasks EXCEPT ![inflight[c].id] =
                   SaveTask(@, inflight[c].doc, inflight[c].pushed)]
    /\ returned' = [returned EXCEPT ![inflight[c].id] = @ \o inflight[c].pushed]
    /\ resp' = Response(inflight[c].ep, 201, inflight[c].id,
                         [kind |-> "task", id |-> inflight[c].id, doc |-> inflight[c].doc])
    /\ inflight' = [inflight EXCEPT ![c] = Idle]
    /\ UNCHANGED <<employees, events, clock, lastSet, overlapped, reports>>

\* task.save() validates the loaded document first: a status outside the enum
\* (stored by updateTaskStatus before the load) fails validation, caught as 500
SaveCommentInvalid(c) ==
    /\ inflight[c].kind = "comment"
    /\ inflight[c].doc.status \notin StatusEnum
    /\ resp' = Response(inflight[c].ep, 500, inflight[c].id, NoBody)
    /\ inflight' = [inflight EXCEPT ![c] = Idle]
    /\ UNCHANGED <<store, clock, history, reports>>

----------------------------------------------------------------------------
(* POST /api/events/:id/rsvp *)

EventExists(id) == id \in 1..Len(events)

Contains(seq, x) == \E i \in 1..Len(seq) : seq[i] = x

PendingRSVPs(id) ==
    Cardinality({c \in Clients : inflight[c].kind = "rsvp" /\ inflight[c].id = id})

\* confirmRSVP up to its write: looks the event up and checks the attendees
confirmRSVP(c, id, ident) ==
    /\ inflight[c] = Idle
    /\ IF ~EventExists(id) THEN
          /\ resp' = Response("confirmRSVP", 404, id, NoBody)
          /\ UNCHANGED inflight
       ELSE IF Contains(events[id].attendees, ident) THEN
          /\ resp' = Response("confirmRSVP", 400, id, NoBody)
          /\ UNCHANGED inflight
       ELSE
          /\ Len(events[id].attendees) + PendingRSVPs(id) < MaxAttendees
          /\ inflight' = [inflight EXCEPT ![c] = [kind |-> "rsvp", id |-> id, ident |-> ident]]
          /\ UNCHANGED resp
    /\ UNCHANGED <<store, clock, history, reports>>

\* The write of confirmRSVP: appends the identifier to the stored attendees
SaveRSVP(c) ==
    /\ inflight[c].kind = "rsvp"
    /\ events' = [events EXCEPT ![inflight[c].id].attendees = Append(@, inflight[c].ident)]
    /\ resp' = Response("confirmRSVP", 200, inflight[c].id, NoBody)
    /\ inflight' = [inflight EXCEPT ![c] = Idle]
    /\ UNCHANGED <<employees, tasks, clock, history, reports>>

----------------------------------------------------------------------------
(* POST /api/events/:id/unrsvp and POST /api/payment/confirm-payment *)

\* A sequence without the first occurrence of x
WithoutFirst(seq, x) ==
    IF ~Contains(seq, x) THEN seq
    ELSE LET k == CHOOSE i \in 1..Len(seq) : seq[i] = x /\ \A j \in 1..(i - 1) : seq[j] # x
         IN  SubSeq(seq, 1, k - 1) \o SubSeq(seq, k + 1, Len(seq))

\* A sequence without any occurrence of x
WithoutAll(seq, x) == SelectSeq(seq, LAMBDA y : y # x)

\* unRSVP up to its write: looks the event up and checks the attendees
unRSVP(c, id, ident) ==
    /\ inflight[c] = Idle
    /\ IF ~EventExists(id) THEN
          /\ resp' = Response("unRSVP", 404, id, NoBody)
          /\ UNCHANGED inflight
       ELSE IF ~Contains(events[id].attendees, ident) THEN
          /\ resp' = Response("unRSVP", 400, id, NoBody)
          /\ UNCHANGED inflight
       ELSE
          /\ inflight' = [inflight EXCEPT ![c] = [kind |-> "unrsvp", id |-> id, ident |-> ident]]
          /\ UNCHANGED resp
    /\ UNCHANGED <<store, clock, history, reports>>

\* The write of unRSVP: removes the identifier from the stored attendees, one
\* occurrence of it or all of them
SaveUnRSVP(c) ==
    /\ inflight[c].kind = "unrsvp"
    /\ \E left \in { WithoutFirst(events[inflight[c].id].attendees, inflight[c].ident),
                      WithoutAll(events[inflight[c].id].attendees, inflight[c].ident) } :
          events' = [events EXCEPT ![inflight[c].id].attendees = left]
    /\ resp' = Response("unRSVP", 200, inflight[c].id, NoBody)
    /\ inflight' = [inflight EXCEPT ![c] = Idle]
    /\ UNCHANGED <<employees, tasks, clock, history, reports>>

\* confirmPayment: a payment whose signature does not verify is answered 400;
\* otherwise the identifier is appended to the attendees of the event, without a
\* look at the attendees it has
confirmPayment(id, ident, verified) ==
    /\ IF ~verified THEN
          /\ resp' = Response("confirmPayment", 400, id, NoBody)
          /\ UNCHANGED events
       ELSE IF ~EventExists(id) THEN
          /\ resp' = Response("confirmPayment", 404, id, NoBody)
          /\ UNCHANGED events
       ELSE
          /\ Len(events[id].attendees) + PendingRSVPs(id) < MaxAttendees
          /\ events' = [events EXCEPT ![id].attendees = Append(@, ident)]
          /\ resp' = Response("confirmPayment", 200, id, NoBody)
    /\ UNCHANGED <<employees, tasks, clock, inflight, history, reports>>

----------------------------------------------------------------------------
(* GET /api/admin: getTasks, the paginated creator task list *)

Digits == {"0", "1", "2", "3", "4", "5", "6", "7", "8", "9"}

DigitValue(d) ==
    CASE d = "0" -> 0 [] d = "1" -> 1 [] d = "2" -> 2 [] d = "3" -> 3 [] d = "4" -> 4
      [] d = "5" -> 5 [] d = "6" -> 6 [] d = "7" -> 7 [] d = "8" -> 8 [] d = "9" -> 9

\* The longest prefix of digits of a sequence of characters: the characters
\* before the first one that is no digit
LeadingDigits(s) ==
    LET others == {i \in 1..Len(s) : s[i] \notin Digits}
    IN  IF others = {} THEN s
        ELSE SubSeq(s, 1, (CHOOSE i \in others : \A j \in others : i <= j) - 1)

RECURSIVE DigitsValue(_)
\* The integer that decimal digits denote
DigitsValue(ds) ==
    IF ds = << >> THEN 0
    ELSE DigitsValue(SubSeq(ds, 1, Len(ds) - 1)) * 10 + DigitValue(ds[Len(ds)])

\* White space as parseInt, Number and trim of JavaScript skip it: the WhiteSpace
\* and LineTerminator characters of the language (a character outside ASCII is
\* written as its code point): TAB, LF, VT, FF, CR, SP, NBSP, the other space
\* separators, LS, PS and ZWNBSP
WhiteSpace ==
    {"\t", "\n", "U+000B", "\f", "\r", " ", "U+00A0", "U+1680", "U+2000", "U+2001",
     "U+2002", "U+2003", "U+2004", "U+2005", "U+2006", "U+2007", "U+2008", "U+2009",
     "U+200A", "U+2028", "U+2029", "U+202F", "U+205F", "U+3000", "U+FEFF"}

RECURSIVE SkipWhiteSpace(_)
\* A sequence of characters without its leading white space
SkipWhiteSpace(s) ==
    IF s = << >> \/ Head(s) \notin WhiteSpace THEN s ELSE SkipWhiteSpace(Tail(s))

RECURSIVE DropTrailingWhiteSpace(_)
DropTrailingWhiteSpace(s) ==
    IF s = << >> \/ s[Len(s)] \notin WhiteSpace THEN s
    ELSE DropTrailingWhiteSpace(SubSeq(s, 1, Len(s) - 1))

\* String.prototype.trim
TrimWhiteSpace(s) == DropTrailingWhiteSpace(SkipWhiteSpace(s))

\* The digits of radix 2, 8 and 16
DigitsOfRadix(radix) ==
    CASE radix = 2 -> {"0", "1"}
      [] radix = 8 -> {"0", "1", "2", "3", "4", "5", "6", "7"}
      [] radix = 16 -> Digits \cup {"a", "b", "c", "d", "e", "f", "A", "B", "C", "D", "E", "F"}

RadixDigitValue(d) ==
    CASE d \in Digits -> DigitValue(d)
      [] d \in {"a", "A"} -> 10 [] d \in {"b", "B"} -> 11 [] d \in {"c", "C"} -> 12
      [] d \in {"d", "D"} -> 13 [] d \in {"e", "E"} -> 14 [] d \in {"f", "F"} -> 15

RECURSIVE LeadingRadixDigits(_, _)
LeadingRadixDigits(s, radix) ==
    IF s = << >> \/ Head(s) \notin DigitsOfRadix(radix) THEN << >>
    ELSE << Head(s) >> \o LeadingRadixDigits(Tail(s), radix)

RECURSIVE RadixValue(_, _)
RadixValue(ds, radix) ==
    IF ds = << >> THEN 0
    ELSE RadixValue(SubSeq(ds, 1, Len(ds) - 1), radix) * radix + RadixDigitValue(ds[Len(ds)])

\* The text starts with 0 and one of the letters
HasPrefix(s, letters) == Len(s) >= 2 /\ s[1] = "0" /\ s[2] \in letters

RECURSIVE SkipZeros(_)
SkipZeros(ds) == IF ds = << >> \/ Head(ds) # "0" THEN ds ELSE SkipZeros(Tail(ds))

\* The double nearest to the positive rational P / Q, ties going to the even
\* mantissa: the infinity from 2^1024 - 2^970 on, and otherwise m * 2^q with
\* m < 2^53 and q in -1074..971 (m = 0: the rational rounds to 0; m < 2^52 only
\* for q = -1074, the subnormal doubles)
RoundToDouble(P, Q) ==
    IF P >= (2^1024 - 2^970) * Q THEN [inf |-> TRUE, m |-> 0, q |-> 0]
    ELSE LET Num(j) == IF j >= 0 THEN 2^j ELSE 1
             Den(j) == IF j < 0 THEN 2^(0 - j) ELSE 1
             q == IF P * 2^1022 < Q THEN 0 - 1074
                  ELSE CHOOSE j \in (0 - 1074)..971 :
                          /\ Num(52 + j) * Q <= P * Den(52 + j)
                          /\ P * Den(53 + j) < Num(53 + j) * Q
             A == P * Den(q)
             B == Q * Num(q)
             f == A \div B
             r == A % B
             m == IF 2 * r > B \/ (2 * r = B /\ f % 2 = 1) THEN f + 1 ELSE f
         IN  IF m = 2^53 THEN [inf |-> FALSE, m |-> 2^52, q |-> q + 1]
             ELSE [inf |-> FALSE, m |-> m, q |-> q]

\* The double nearest to the integer n, as the integer it is, or as the infinity
\* of the sign val. An integer below 2^53 is a double itself (the test against
\* 2^30 comes first for the sake of integers of 32 bits)
DoubleOfInteger(n) ==
    LET a == IF n < 0 THEN 0 - n ELSE n
        sign == IF n < 0 THEN 0 - 1 ELSE 1
        d == RoundToDouble(a, 1)
    IN  IF a < 2^30 \/ a < 2^53 THEN [inf |-> FALSE, val |-> n]
        ELSE IF d.inf THEN [inf |-> TRUE, val |-> sign]
        ELSE [inf |-> FALSE, val |-> sign * d.m * 2^d.q]

\* parseInt of a query parameter given as its characters (<< >>: no parameter,
\* read as "undefined"): leading white space is skipped, then an optional sign,
\* then either 0x or 0X and the leading hexadecimal digits, or the leading
\* decimal digits; NaN when there is no digit. The result is a double: the one
\* nearest to the integer written, an infinity from 2^1024 - 2^970 on (every
\* integer of more than 309 decimal or 256 hexadecimal digits is that large)
parseInt(s) ==
    LET t == SkipWhiteSpace(s)
        neg == t # << >> /\ Head(t) = "-"
        rest == IF t # << >> /\ Head(t) \in {"-", "+"} THEN Tail(t) ELSE t
        hex == HasPrefix(rest, {"x", "X"})
        ds == IF hex THEN LeadingRadixDigits(SubSeq(rest, 3, Len(rest)), 16)
              ELSE LeadingDigits(rest)
        n == IF hex THEN RadixValue(ds, 16) ELSE DigitsValue(ds)
        v == IF Len(SkipZeros(ds)) > (IF hex THEN 256 ELSE 309)
             THEN [inf |-> TRUE, val |-> IF neg THEN 0 - 1 ELSE 1]
             ELSE DoubleOfInteger(IF neg THEN 0 - n ELSE n)
    IN  IF ds = << >> THEN [nan |-> TRUE, inf |-> FALSE, val |-> 0]
        ELSE [nan |-> FALSE, inf |-> v.inf, val |-> v.val]

\* parseInt(taskRequest.query.page) || 1: NaN and 0 are falsy
PageOf(s) ==
    IF parseInt(s).nan \/ (~parseInt(s).inf /\ parseInt(s).val = 0)
    THEN [inf |-> FALSE, val |-> 1]
    ELSE [inf |-> parseInt(s).inf, val |-> parseInt(s).val]

\* (page - 1) * limit, a difference and a product of doubles: an infinity stays
\* the infinity it is
SkipOf(page) ==
    IF page.inf THEN page
    ELSE DoubleOfInteger(DoubleOfInteger(page.val - 1).val * PageLimit)

\* .skip(skip) with a skip that is no 64-bit integer, 2^63 and beyond or Infinity
\* (2^30 as in DoubleOfInteger)
BeyondInt64(skip) == skip.inf \/ (skip.val >= 2^30 /\ skip.val >= 2^63)

\* As SortsBefore, by the creation time first
SortsBeforeByCreation(i, j) ==
    \/ tasks[i].createdAt < tasks[j].createdAt
    \/ tasks[i].createdAt = tasks[j].createdAt /\ tasks[i].deadline < tasks[j].deadline

\* sort({ deadline: 1, createdAt: 1 }): task i has to go before task j; the sort
\* puts no order on two documents with equal keys
SortsBefore(i, j) ==
    \/ tasks[i].deadline < tasks[j].deadline
    \/ tasks[i].deadline = tasks[j].deadline /\ tasks[i].createdAt < tasks[j].createdAt

RECURSIVE TaskOrders(_)
\* The orders in which a sorted cursor may return the tasks of the set S: every
\* order of S that respects SortsBefore, documents with equal keys in any order
TaskOrders(S) ==
    IF S = {} THEN { << >> }
    ELSE UNION { { << i >> \o t : t \in TaskOrders(S \ {i}) } :
                   i \in { i \in S : \A j \in S : ~SortsBefore(j, i) } }

\* Task.find({ creator }).sort(...): the lists of ids a query may return
FindSorted(creator) ==
    TaskOrders({ i \in 1..Len(tasks) : tasks[i].creator = creator })

\* .skip(skip).limit(limit) of a cursor
SkipLimit(seq, skip, limit) ==
    SubSeq(seq, skip + 1, IF Len(seq) < skip + limit THEN Len(seq) ELSE skip + limit)

\* userEmail "" stands for no user-email header; the server rejects a negative
\* skip, caught as 500; a skip that is no 64-bit integer is rejected by a server
\* that converts it to a negative integer and taken as a skip past every document
\* by a server that clamps it; the body lists the _id of the documents returned,
\* in one of the orders the sort allows (each query has its own)
getTasks(userEmail, pageParam) ==
    /\ IF userEmail = "" THEN resp' = Response("getTasks", 400, 0, NoBody)
       ELSE IF SkipOf(PageOf(pageParam)).val < 0
       THEN resp' = Response("getTasks", 500, 0, NoBody)
       ELSE IF BeyondInt64(SkipOf(PageOf(pageParam)))
       THEN \/ resp' = Response("getTasks", 500, 0, NoBody)
            \/ resp' = Response("getTasks", 200, 0,
                                [kind |-> "list", email |-> userEmail, ids |-> << >>])
       ELSE \E sorted \in FindSorted(userEmail) :
               resp' = Response("getTasks", 200, 0,
                                [kind |-> "list", email |-> userEmail,
                                 ids |-> SkipLimit(sorted, SkipOf(PageOf(pageParam)).val,
                                                   PageLimit)])
    /\ UNCHANGED <<store, clock, inflight, history, reports>>

----------------------------------------------------------------------------
(* GET /api/tasks/assigned: getTasksByAssignee, the assignee task list *)

\* Task.find({ assignee }).sort(...): the lists of ids a query may return
FindAssignedSorted(assignee) ==
    TaskOrders({ i \in 1..Len(tasks) : tasks[i].assignee = assignee })

\* userEmail "" stands for no user-email header; no other header is read
getTasksByAssignee(userEmail) ==
    /\ \E sorted \in FindAssignedSorted(userEmail) :
         resp' =
           IF userEmail = "" THEN Response("getTasksByAssignee", 400, 0, NoBody)
           ELSE IF Len(sorted) = 0 THEN Response("getTasksByAssignee", 404, 0, NoBody)
           ELSE Response("getTasksByAssignee", 200, 0, [kind |-> "list", ids |-> sorted])
    /\ UNCHANGED <<store, clock, inflight, history, reports>>

----------------------------------------------------------------------------
(* GET /api/admin/filter: filterTasks *)

\* As FilterQuery, without the assignee
FilterQueryStatusOnly(status, assignee) ==
    [status |-> IF status # "" /\ status \in StatusEnum THEN status ELSE "", assignee |-> ""]

\* The query filterTasks builds: a parameter "" stands for one that is not
\* supplied, a field "" of the query for one that is not set; a status outside
\* the three of the list is dropped
FilterQuery(status, assignee) ==
    [status |-> IF status # "" /\ status \in StatusEnum THEN status ELSE "",
     assignee |-> assignee]

\* A document matches a query
Matches(task, query) ==
    /\ query.status = "" \/ task.status = query.status
    /\ query.assignee = "" \/ task.assignee = query.assignee

RECURSIVE Find(_, _)
\* Task.find(query) over the tasks 1..n: the ids in the order of the collection
Find(query, n) ==
    IF n = 0 THEN << >>
    ELSE Find(query, n - 1) \o (IF Matches(tasks[n], query) THEN << n >> ELSE << >>)

filterTasks(status, assignee) ==
    /\ resp' = Response("filterTasks", 200, 0,
                        [kind |-> "list", ids |-> Find(FilterQuery(status, assignee), Len(tasks))])
    /\ UNCHANGED <<store, clock, inflight, history, reports>>

----------------------------------------------------------------------------
(* ReportsHome: fetchReport and the effect that derives the chart data *)

\* As GroupKey, of the year alone
GroupKeyYearOnly(cur) == [year |-> cur.year]

\* The key `${cur.year}-${cur.eventType}` of a record: a number and an event type
\* give one string, different pairs different strings
GroupKey(cur) == [year |-> cur.year, eventType |-> cur.eventType]

\* Number(cur.totalBudget) || 0: totalBudget is << >> when the record has none
NumberOrZero(b) == IF b = << >> THEN 0 ELSE b[1]

\* The team 'N/A', as its characters
NotAvailable == << "N", "/", "A" >>

\* cur.team || 'N/A': a team is the sequence of its characters
TeamOrNA(t) == IF t = << >> THEN NotAvailable ELSE t

\* The position of the row of a key in the rows, 0 when there is none
RowOf(rows, key) ==
    IF \E i \in 1..Len(rows) : GroupKey(rows[i]) = key
    THEN CHOOSE i \in 1..Len(rows) : GroupKey(rows[i]) = key
    ELSE 0

\* One step of the reduce: creates the row of the record's key when it is new,
\* then adds the record to it; the team of a row is the team of its first record
Accumulate(acc, cur) ==
    LET rows == IF RowOf(acc, GroupKey(cur)) = 0
                THEN Append(acc, [year |-> cur.year, team |-> TeamOrNA(cur.team),
                                  eventType |-> cur.eventType, eventCount |-> 0,
                                  totalBudget |-> 0])
                ELSE acc
        k == RowOf(rows, GroupKey(cur))
    IN  [rows EXCEPT ![k].eventCount = @ + 1,
                     ![k].totalBudget = @ + NumberOrZero(cur.totalBudget)]

RECURSIVE Aggregate(_)
\* Object.values(response.data.reduce(...)): the rows in the order their keys
\* first occur
Aggregate(data) ==
    IF data = << >> THEN << >>
    ELSE Accumulate(Aggregate(SubSeq(data, 1, Len(data) - 1)), data[Len(data)])

\* fetchReport after the response arrived
fetchReport ==
    /\ phase = "mounted"
    /\ reportData' = Aggregate(fetched)
    /\ phase' = "fetched"
    /\ UNCHANGED <<store, clock, inflight, resp, history, fetched, budgetByTeam>>

\* The properties that the object {} inherits from Object.prototype: its methods,
\* and the accessor __proto__
InheritedMethods ==
    { << "c", "o", "n", "s", "t", "r", "u", "c", "t", "o", "r" >>,
      << "h", "a", "s", "O", "w", "n", "P", "r", "o", "p", "e", "r", "t", "y" >>,
      << "i", "s", "P", "r", "o", "t", "o", "t", "y", "p", "e", "O", "f" >>,
      << "p", "r", "o", "p", "e", "r", "t", "y", "I", "s", "E", "n", "u", "m", "e", "r", "a", "b", "l", "e" >>,
      << "t", "o", "L", "o", "c", "a", "l", "e", "S", "t", "r", "i", "n", "g" >>,
      << "t", "o", "S", "t", "r", "i", "n", "g" >>,
      << "v", "a", "l", "u", "e", "O", "f" >>,
      << "_", "_", "d", "e", "f", "i", "n", "e", "G", "e", "t", "t", "e", "r", "_", "_" >>,
      << "_", "_", "d", "e", "f", "i", "n", "e", "S", "e", "t", "t", "e", "r", "_", "_" >>,
      << "_", "_", "l", "o", "o", "k", "u", "p", "G", "e", "t", "t", "e", "r", "_", "_" >>,
      << "_", "_", "l", "o", "o", "k", "u", "p", "S", "e", "t", "t", "e", "r", "_", "_" >> }

ProtoAccessor == << "_", "_", "p", "r", "o", "t", "o", "_", "_" >>

\* A value of budgetByTeams: a number (its value is the one element of added), or
\* the string String(Object.prototype[source]) followed by the numbers of added
NumberValue(n) == [string |-> FALSE, source |-> << >>, added |-> << n >>]
StringValue(source, added) == [string |-> TRUE, source |-> source, added |-> added]

\* (value || 0) + n for a property that exists: a number adds (0 || 0 is 0), a
\* string is truthy and has the number appended
OrZeroPlus(value, n) ==
    IF value.string THEN StringValue(value.source, Append(value.added, n))
    ELSE NumberValue(value.added[1] + n)

\* budgetByTeams[cur.team] = (budgetByTeams[cur.team] || 0) + cur.totalBudget for
\* a row with a team: the entry of the team, and a new last entry when it has
\* none; budgetByTeams is a plain {}, so for a team named as an inherited method
\* the first read gives the function and the new entry is a string, and for the
\* team __proto__ the read gives Object.prototype and the assignment of the
\* string goes to the accessor, which ignores it: no entry is created
AddTeamBudget(entries, row) ==
    IF row.team = << >> \/ row.team = NotAvailable THEN entries
    ELSE IF \E i \in 1..Len(entries) : entries[i].team = row.team
    THEN LET k == CHOOSE i \in 1..Len(entries) : entries[i].team = row.team
         IN  [entries EXCEPT ![k].budget = OrZeroPlus(@, row.totalBudget)]
    ELSE IF row.team = ProtoAccessor THEN entries
    ELSE IF row.team \in InheritedMethods
    THEN Append(entries, [team |-> row.team,
                          budget |-> StringValue(row.team, << row.totalBudget >>)])
    ELSE Append(entries, [team |-> row.team, budget |-> NumberValue(row.totalBudget)])

RECURSIVE TeamBudgets(_)
\* The properties of budgetByTeams after reportData.forEach, in the order in which
\* they were created
TeamBudgets(rows) ==
    IF rows = << >> THEN << >>
    ELSE AddTeamBudget(TeamBudgets(SubSeq(rows, 1, Len(rows) - 1)), rows[Len(rows)])

RECURSIVE DigitsBefore(_, _)
\* s < t, for two sequences of decimal digits without leading zeros
DigitsBefore(s, t) ==
    IF Len(s) # Len(t) THEN Len(s) < Len(t)
    ELSE IF s = << >> THEN FALSE
    ELSE IF Head(s) # Head(t) THEN DigitValue(Head(s)) < DigitValue(Head(t))
    ELSE DigitsBefore(Tail(s), Tail(t))

\* A property key that is an array index: the canonical decimal text of an
\* integer from 0 to 2^32 - 2
IsArrayIndex(key) ==
    /\ key # << >>
    /\ LeadingDigits(key) = key
    /\ Len(key) = 1 \/ Head(key) # "0"
    /\ DigitsBefore(key, << "4", "2", "9", "4", "9", "6", "7", "2", "9", "5" >>)

RECURSIVE IndexEntriesAscending(_)
\* The entries whose team is an array index, by ascending index
IndexEntriesAscending(entries) ==
    LET I == { i \in 1..Len(entries) : IsArrayIndex(entries[i].team) } IN
    IF I = {} THEN << >>
    ELSE LET k == CHOOSE i \in I : \A j \in I : ~DigitsBefore(entries[j].team, entries[i].team)
         IN  << entries[k] >>
             \o IndexEntriesAscending(SubSeq(entries, 1, k - 1) \o SubSeq(entries, k + 1, Len(entries)))

\* Object.entries(budgetByTeams): the array-index keys first, in ascending order,
\* then the other keys in the order in which they were created
BudgetByTeams(rows) ==
    IndexEntriesAscending(TeamBudgets(rows))
    \o SelectSeq(TeamBudgets(rows), LAMBDA e : ~IsArrayIndex(e.team))

\* The effect on [reportData]: returns at once when reportData is empty
chartEffect ==
    /\ phase = "fetched"
    /\ budgetByTeam' = IF Len(reportData) = 0 THEN budgetByTeam ELSE BudgetByTeams(reportData)
    /\ phase' = "charted"
    /\ UNCHANGED <<store, clock, inflight, resp, history, fetched, reportData>>

----------------------------------------------------------------------------
(* The server *)

\* A step that records no request and leaves the client components alone
Untraced == UNCHANGED <<req, client>>

\* Time passes
Tick ==
    /\ clock < MaxClock
    /\ clock' = clock + 1
    /\ UNCHANGED <<store, inflight, resp, history, reports>>

TaskIds == 0..(MaxTasks + 1)

StatusValues == StatusEnum \cup {"Done", ""}

MessageValues == {"hi", ""}

Init ==
    /\ employees = SeedEmployees
    /\ events = << >>
    /\ tasks = << >>
    /\ clock = 0
    /\ inflight = [c \in Clients |-> Idle]
    /\ resp = Response("none", 0, 0, NoBody)
    /\ lastSet = << >>
    /\ returned = << >>
    /\ overlapped = << >>
    /\ fetched = << >>
    /\ reportData = << >>
    /\ budgetByTeam = << >>
    /\ phase = "unmounted"
    /\ req = NoRequest
    /\ form = NotMounted
    /\ pay = NotMounted
    /\ panel = NotMounted
    /\ ctx = NotMounted
    /\ chat = NotMounted

\* Credentials a request on a task may carry: none, the assignee's (e@x), a
\* manager's (m@x), an expired one
TaskCredentials ==
    { << NoToken, NoHeader >>,
      << NoToken, Header("Bearer ", Token("good", FALSE, 3)) >>,
      << Token("good", FALSE, 2), NoHeader >>,
      << NoToken, Header("Bearer ", Token("good", TRUE, 3)) >> }

\* The requests that read or write the Task collection (the second client asks
\* for the ids up to MaxTasks only)
TaskServer ==
    \/ Tick /\ Untraced
    \/ \E cred \in TaskCredentials, body \in EventBodies :
          PostEvent(cred[1], cred[2], body) /\ Untraced
    \/ \E id \in TaskIds, status \in StatusValues :
          updateTaskStatus(id, status) /\ Untraced
    \/ \E c \in Clients, id \in TaskIds, a \in {"e@x", ""}, m \in MessageValues :
          /\ c = 1 \/ id <= MaxTasks
          /\ addCommentToTask_Assignee(c, id, a, m) /\ Untraced
    \/ \E c \in Clients, id \in TaskIds, a \in {"m@x", ""}, m \in MessageValues :
          /\ c = 1 \/ id <= MaxTasks
          /\ addCommentToTask(c, id, a, m) /\ Untraced
    \/ \E c \in Clients : AwaitSave(c) /\ Untraced
    \/ \E c \in Clients : SaveComment(c) /\ Untraced
    \/ \E c \in Clients : SaveCommentInvalid(c) /\ Untraced

\* The requests that create events and RSVP to them
RSVPServer ==
    \/ \E cookie \in CookieValues, header \in HeaderValues, body \in EventBodies :
          PostEvent(cookie, header, body) /\ Untraced
    \/ \E c \in Clients, id \in 1..(MaxEvents + 1), ident \in {"e@x", "Eve"} :
          confirmRSVP(c, id, ident) /\ Untraced
    \/ \E c \in Clients : SaveRSVP(c) /\ Untraced

\* The requests that read or write the Event collection
EventServer ==
    \/ RSVPServer
    \/ \E c \in Clients, id \in 1..(MaxEvents + 1), ident \in {"e@x", "Eve"} :
          unRSVP(c, id, ident) /\ Untraced
    \/ \E c \in Clients : SaveUnRSVP(c) /\ Untraced
    \/ \E id \in 1..(MaxEvents + 1), ident \in {"e@x", "Eve"}, verified \in BOOLEAN :
          confirmPayment(id, ident, verified) /\ Untraced

Next == TaskServer \/ EventServer

\* The whole server
Server == Init /\ [][Next]_vars

\* The server under the requests on events and tasks (status, comments); the RSVP
\* requests leave tasks, clock and history unchanged and are checked under SpecEvents
Spec == Init /\ [][TaskServer]_vars

\* The server under the requests on events (creation, RSVP, un-RSVP, payment)
SpecEvents == Init /\ [][EventServer]_vars

\* The server under event creation and RSVP requests alone
SpecRSVP == Init /\ [][RSVPServer]_vars

----------------------------------------------------------------------------
(* The creator task list over a stored collection *)

\* The status of the task at position i of a stored collection
SeedStatus(i) ==
    IF i % 4 = 0 THEN "Completed" ELSE IF i % 4 = 2 THEN "In Progress" ELSE DefaultStatus

\* A task of a stored collection: statuses, creators, assignees, deadlines and
\* creation times vary with the position i; tasks created together share their
\* creation time
SeedTask(i, a, b, m, g) ==
    [eventID |-> 1, status |-> SeedStatus(i), budget |-> 0,
     creator |-> IF i % m = 0 THEN "a@x" ELSE "m@x",
     assignee |-> IF i % 3 = 2 THEN "m@x" ELSE "e@x",
     deadline |-> (i * a + b) % 4, createdAt |-> i \div g, updatedAt |-> i \div g,
     comments |-> << >>]

SeedEvent ==
    [eventType |-> "firm-wide", availableSlots |-> 0, team |-> "", totalBudget |-> 0,
     attendees |-> << >>, creator |-> "a@x"]

\* query.page as its characters
PageParams ==
    { << >>, <<"1">>, <<"2">>, <<"3">>, <<"0">>, <<"0", "2">>, <<"-", "1">>,
      <<"a">>, <<"2", "x">>, <<"U+000B", "2">>, <<"0", "x", "1", "0">>,
      [i \in 1..310 |-> "9"] }

InitPage ==
    /\ employees = SeedEmployees
    /\ events = << SeedEvent >>
    /\ \E n \in 0..MaxListed, a \in {1, 3}, m \in {1, 2, 3}, g \in {1, 5} :
          /\ tasks = [i \in 1..n |-> SeedTask(i, a, 0, m, g)]
          /\ lastSet = [i \in 1..n |-> [status |-> "", code |-> 0]]
          /\ returned = [i \in 1..n |-> << >>]
          /\ overlapped = [i \in 1..n |-> FALSE]
    /\ clock = 0
    /\ inflight = [c \in Clients |-> Idle]
    /\ resp = Response("none", 0, 0, NoBody)
    /\ fetched = << >>
    /\ reportData = << >>
    /\ budgetByTeam = << >>
    /\ phase = "unmounted"
    /\ req = NoRequest
    /\ form = NotMounted
    /\ pay = NotMounted
    /\ panel = NotMounted
    /\ ctx = NotMounted
    /\ chat = NotMounted

\* Credentials a list request may carry besides its user-email header
ListCredentials ==
    { NoHeader,
      Header("Bearer ", Token("good", FALSE, 2)) }

NextPage ==
    \/ \E e \in {"a@x", "m@x", ""}, p \in PageParams :
          /\ getTasks(e, p)
          /\ req' = [op |-> "getTasks", email |-> e, page |-> p]
          /\ UNCHANGED client
    \/ \E e \in {"e@x", "m@x", "z@x", ""}, header \in ListCredentials :
          /\ getTasksByAssignee(e)
          /\ req' = [op |-> "getTasksByAssignee", email |-> e, header |-> header]
          /\ UNCHANGED client
    \/ \E status \in StatusValues, assignee \in {"e@x", "z@x", ""} :
          /\ filterTasks(status, assignee)
          /\ req' = [op |-> "filterTasks", status |-> status, assignee |-> assignee]
          /\ UNCHANGED client

SpecPage == InitPage /\ [][NextPage]_vars

----------------------------------------------------------------------------
(* ReportsHome over a fetched response *)

\* The teams of the records, as their characters
ReportTeams ==
    { << "O", "p", "s" >>, << "H", "R" >>, << "7" >>, << "1", "0" >>,
      << "t", "o", "S", "t", "r", "i", "n", "g" >>, ProtoAccessor }

\* Records of the compiled report (team << >>: a record without team)
ReportRecords ==
    [year : {2023, 2024}, eventType : {"firm-wide", "team-specific"},
     team : { << >> } \cup ReportTeams, totalBudget : {<< >>, <<500>>, <<1000>>}]

RECURSIVE SeqsUpTo(_, _)
\* The sequences of at most n elements of S
SeqsUpTo(S, n) ==
    IF n = 0 THEN {<< >>}
    ELSE SeqsUpTo(S, n - 1) \cup {Append(q, x) : q \in SeqsUpTo(S, n - 1), x \in S}

InitReport ==
    /\ employees = SeedEmployees
    /\ events = << >>
    /\ tasks = << >>
    /\ clock = 0
    /\ inflight = [c \in Clients |-> Idle]
    /\ resp = Response("none", 0, 0, NoBody)
    /\ lastSet = << >>
    /\ returned = << >>
    /\ overlapped = << >>
    /\ fetched \in SeqsUpTo(ReportRecords, MaxRecords)
    /\ reportData = << >>
    /\ budgetByTeam = << >>
    /\ phase = "mounted"
    /\ req = NoRequest
    /\ form = NotMounted
    /\ pay = NotMounted
    /\ panel = NotMounted
    /\ ctx = NotMounted
    /\ chat = NotMounted

NextReport ==
    \/ fetchReport /\ Untraced
    \/ chartEffect /\ Untraced

SpecReport == InitReport /\ [][NextReport]_vars

----------------------------------------------------------------------------
(* The endpoints that take a task identifier, over a stored collection *)

\* getTaskById (assignee-facing): the id is checked with ObjectId.isValid first
getTaskById(taskId) ==
    /\ resp' =
         IF ~IsValidObjectId(taskId) THEN Response("getTaskById", 400, taskId, NoBody)
         ELSE IF ~TaskExists(taskId) THEN Response("getTaskById", 404, taskId, NoBody)
         ELSE Response("getTaskById", 200, taskId,
                       [kind |-> "task", id |-> taskId, doc |-> tasks[taskId]])
    /\ UNCHANGED <<store, clock, inflight, history, reports>>

\* getTaskDetails (creator-facing): findById of a malformed id throws a CastError,
\* caught as 500
getTaskDetails(id) ==
    /\ resp' =
         IF ~IsValidObjectId(id) THEN Response("getTaskDetails", 500, id, NoBody)
         ELSE IF ~TaskExists(id) THEN Response("getTaskDetails", 404, id, NoBody)
         ELSE Response("getTaskDetails", 200, id,
                       [kind |-> "task", id |-> id, doc |-> tasks[id]])
    /\ UNCHANGED <<store, clock, inflight, history, reports>>

\* getTaskComments (creator-facing): as getTaskDetails, answering the comments
getTaskComments(id) ==
    /\ resp' =
         IF ~IsValidObjectId(id) THEN Response("getTaskComments", 500, id, NoBody)
         ELSE IF ~TaskExists(id) THEN Response("getTaskComments", 404, id, NoBody)
         ELSE Response("getTaskComments", 200, id,
                       [kind |-> "comments", id |-> id, comments |-> tasks[id].comments])
    /\ UNCHANGED <<store, clock, inflight, history, reports>>

\* The Employee a request's credential names ("" when it names none): what
\* authenticateUser would attach as request.user.email
Caller(cookie, header) ==
    IF authenticateUser(cookie, header).next
    THEN authenticateUser(cookie, header).user.email
    ELSE ""

\* History of a request on a task: the endpoint, the identifier of the URL,
\* whether the rest of the request is valid, who sent it, and whether it was
\* answered in this step (a comment append is answered when its handler ends,
\* after findById or after save)
TaskRequest(op, id, valid, caller) ==
    [op |-> op, id |-> id, valid |-> valid, caller |-> caller,
     answered |-> \/ inflight' = inflight
                  \/ \E c \in Clients : inflight[c] # Idle /\ inflight'[c] = Idle]

TaskIdOps ==
    {"getTaskById", "updateTaskStatus", "addCommentToTask_Assignee",
     "getTaskDetails", "addCommentToTask", "getTaskComments"}

\* A stored collection of n tasks created with one event
InitLookup ==
    /\ employees = SeedEmployees
    /\ events = << SeedEvent >>
    /\ \E n \in 0..MaxTasks :
          /\ tasks = [i \in 1..n |-> SeedTask(i, 1, 0, 2, 1)]
          /\ lastSet = [i \in 1..n |-> [status |-> "", code |-> 0]]
          /\ returned = [i \in 1..n |-> << >>]
          /\ overlapped = [i \in 1..n |-> FALSE]
    /\ clock = 0
    /\ inflight = [c \in Clients |-> Idle]
    /\ resp = Response("none", 0, 0, NoBody)
    /\ fetched = << >>
    /\ reportData = << >>
    /\ budgetByTeam = << >>
    /\ phase = "unmounted"
    /\ req = NoRequest
    /\ form = NotMounted
    /\ pay = NotMounted
    /\ panel = NotMounted
    /\ ctx = NotMounted
    /\ chat = NotMounted

\* The task routes check no credential: a request may come with any; the
\* comment appends come one at a time here (Spec overlaps them)
NextLookup ==
    \/ \E id \in TaskIds :
          /\ getTaskById(id)
          /\ req' = TaskRequest("getTaskById", id, TRUE, "")
          /\ UNCHANGED client
    \/ \E id \in TaskIds :
          /\ getTaskDetails(id)
          /\ req' = TaskRequest("getTaskDetails", id, TRUE, "")
          /\ UNCHANGED client
    \/ \E id \in TaskIds :
          /\ getTaskComments(id)
          /\ req' = TaskRequest("getTaskComments", id, TRUE, "")
          /\ UNCHANGED client
    \/ \E id \in TaskIds, status \in StatusValues, cred \in TaskCredentials :
          /\ updateTaskStatus(id, status)
          /\ req' = TaskRequest("updateTaskStatus", id, status # "",
                                Caller(cred[1], cred[2]))
          /\ UNCHANGED client
    \/ \E c \in {1}, id \in TaskIds, a \in {"e@x", ""}, m \in MessageValues :
          /\ addCommentToTask_Assignee(c, id, a, m)
          /\ req' = TaskRequest("addCommentToTask_Assignee", id, a # "" /\ m # "", a)
          /\ UNCHANGED client
    \/ \E c \in {1}, id \in TaskIds, a \in {"m@x", "z@x", ""}, m \in MessageValues :
          /\ addCommentToTask(c, id, a, m)
          /\ req' = TaskRequest("addCommentToTask", id, a # "" /\ m # "", a)
          /\ UNCHANGED client
    \/ \E c \in Clients :
          /\ AwaitSave(c)
          /\ req' = IF inflight[c].kind = "missing"
                    THEN TaskRequest(inflight[c].ep, inflight[c].id, TRUE, inflight[c].author)
                    ELSE NoRequest
          /\ UNCHANGED client
    \/ \E c \in Clients : SaveComment(c) /\ req' = NoRequest /\ UNCHANGED client
    \/ \E c \in Clients : SaveCommentInvalid(c) /\ req' = NoRequest /\ UNCHANGED client

SpecLookup == InitLookup /\ [][NextLookup]_vars

----------------------------------------------------------------------------
(* authenticateUser over the requests it may receive *)

\* One request passes through the middleware: the history keeps the request and
\* what the middleware did with it
Authenticate(cookie, header) ==
    /\ req' = [op |-> "authenticateUser", cookie |-> cookie, header |-> header,
               outcome |-> authenticateUser(cookie, header)]
    /\ UNCHANGED <<store, clock, inflight, resp, history, reports, client>>

\* The employees collection holds the first n seed employees
InitAuth ==
    /\ \E n \in 0..Len(SeedEmployees) : employees = SubSeq(SeedEmployees, 1, n)
    /\ events = << >>
    /\ tasks = << >>
    /\ clock = 0
    /\ inflight = [c \in Clients |-> Idle]
    /\ resp = Response("none", 0, 0, NoBody)
    /\ lastSet = << >>
    /\ returned = << >>
    /\ overlapped = << >>
    /\ fetched = << >>
    /\ reportData = << >>
    /\ budgetByTeam = << >>
    /\ phase = "unmounted"
    /\ req = NoRequest
    /\ form = NotMounted
    /\ pay = NotMounted
    /\ panel = NotMounted
    /\ ctx = NotMounted
    /\ chat = NotMounted

\* cookies.token may also be the empty string (a cookie "token=")
NextAuth ==
    \E cookie \in CookieValues \cup {EmptyToken}, header \in HeaderValues :
        Authenticate(cookie, header)

SpecAuth == InitAuth /\ [][NextAuth]_vars

----------------------------------------------------------------------------
(* EventForm: the fields of the event type and handleSubmit *)

\* The values of Number: NaN, an infinity, or the finite val * 10^exp, where val
\* is no multiple of 10 (0 is val 0, exp 0; -0 is not told from 0)
NaN == [nan |-> TRUE, inf |-> FALSE, val |-> 0, exp |-> 0]
Infinite == [nan |-> FALSE, inf |-> TRUE, val |-> 0, exp |-> 0]

RECURSIVE Finite(_, _)
Finite(val, exp) ==
    IF val = 0 THEN [nan |-> FALSE, inf |-> FALSE, val |-> 0, exp |-> 0]
    ELSE IF val % 10 = 0 THEN Finite(val \div 10, exp + 1)
    ELSE [nan |-> FALSE, inf |-> FALSE, val |-> val, exp |-> exp]

\* Number::toString, as JSON.stringify prints the finite double d = m * 2^q > 0:
\* the decimal v * 10^k of the fewest digits n whose nearest double is d and,
\* among those of n digits, the one nearest to d (17 digits tell any two doubles
\* apart; the distances are scaled by 10^342 * 2^1074)
ShortestDecimal(d) ==
    LET Exps == (0 - 342)..308
        Reads(v, k) == RoundToDouble(IF k >= 0 THEN v * 10^k ELSE v,
                                     IF k >= 0 THEN 1 ELSE 10^(0 - k)) = d
        Short(n) == { c \in (10^(n - 1)..(10^n - 1)) \X Exps : Reads(c[1], c[2]) }
        n == CHOOSE n \in 1..17 : Short(n) # {} /\ \A j \in 1..(n - 1) : Short(j) = {}
        Dist(c) == LET a == c[1] * 10^(c[2] + 342) * 2^1074
                       b == d.m * 2^(d.q + 1074) * 10^342
                   IN  IF a < b THEN b - a ELSE a - b
        best == CHOOSE c \in Short(n) : \A e \in Short(n) \ {c} :
                    Dist(c) < Dist(e) \/ (Dist(c) = Dist(e) /\ c[1] % 2 = 0)
    IN  Finite(best[1], best[2])

\* The Number of the natural n of a 0x, 0o or 0b literal: n itself below 2^53
\* (the test against 2^30 comes first for the sake of integers of 32 bits), and
\* otherwise the double nearest to it
NumberOfNatural(n) ==
    IF n < 2^30 \/ n < 2^53 THEN Finite(n, 0)
    ELSE IF RoundToDouble(n, 1).inf THEN Infinite
    ELSE ShortestDecimal(RoundToDouble(n, 1))

\* The value of the decimal digits ds * 10^exp, with its sign, as the decimal
\* that JSON.stringify prints for its double. The decimal is 0.sig * 10^order:
\* from order 310 on it is beyond 2^1024 and rounds to Infinity, up to order -324
\* it is below 2^-1075 and rounds to 0; a decimal of at most 15 significant
\* digits between 10^-307 and 10^308 is printed as it is written; any other
\* decimal is rounded to the nearest double and printed by ShortestDecimal
DecimalValue(neg, ds, exp) ==
    LET sig == SkipZeros(ds)
        order == Len(sig) + exp
        significant == CHOOSE n \in 1..Len(sig) :
                          sig[n] # "0" /\ \A j \in (n + 1)..Len(sig) : sig[j] = "0"
        d == RoundToDouble(IF exp >= 0 THEN DigitsValue(sig) * 10^exp ELSE DigitsValue(sig),
                           IF exp >= 0 THEN 1 ELSE 10^(0 - exp))
    IN  IF sig = << >> THEN Finite(0, 0)
        ELSE IF order > 309 THEN Infinite
        ELSE IF order < 0 - 323 THEN Finite(0, 0)
        ELSE IF significant <= 15 /\ order > 0 - 307 /\ order < 309
             THEN Finite(IF neg THEN 0 - DigitsValue(sig) ELSE DigitsValue(sig), exp)
        ELSE IF d.inf THEN Infinite
        ELSE IF d.m = 0 THEN Finite(0, 0)
        ELSE Finite(IF neg THEN 0 - ShortestDecimal(d).val ELSE ShortestDecimal(d).val,
                    ShortestDecimal(d).exp)

\* The text is 0 and a letter of the radix followed by digits of the radix only
RadixLiteral(t, letters, radix) ==
    /\ HasPrefix(t, letters)
    /\ Len(t) >= 3
    /\ LeadingRadixDigits(SubSeq(t, 3, Len(t)), radix) = SubSeq(t, 3, Len(t))

\* Number(s) of the text of an input (StringToNumber): white space around the
\* text is dropped; the empty text is 0; 0x, 0o and 0b literals have no sign; a
\* decimal literal is an optional sign, then Infinity or digits with an optional
\* fraction and an optional exponent; any other text is NaN
Number(s) ==
    LET t == TrimWhiteSpace(s)
        neg == t # << >> /\ Head(t) = "-"
        u == IF t # << >> /\ Head(t) \in {"-", "+"} THEN Tail(t) ELSE t
        ip == LeadingDigits(u)
        a == SubSeq(u, Len(ip) + 1, Len(u))
        hasDot == a # << >> /\ Head(a) = "."
        fp == IF hasDot THEN LeadingDigits(Tail(a)) ELSE << >>
        b == IF hasDot THEN SubSeq(a, Len(fp) + 2, Len(a)) ELSE a
        hasExp == b # << >> /\ Head(b) \in {"e", "E"}
        c == IF hasExp THEN Tail(b) ELSE << >>
        eneg == c # << >> /\ Head(c) = "-"
        ed == IF c # << >> /\ Head(c) \in {"-", "+"} THEN Tail(c) ELSE c
        e == IF eneg THEN 0 - DigitsValue(ed) ELSE DigitsValue(ed)
    IN  IF t = << >> THEN Finite(0, 0)
        ELSE IF RadixLiteral(t, {"x", "X"}, 16)
             THEN NumberOfNatural(RadixValue(SubSeq(t, 3, Len(t)), 16))
        ELSE IF RadixLiteral(t, {"o", "O"}, 8)
             THEN NumberOfNatural(RadixValue(SubSeq(t, 3, Len(t)), 8))
        ELSE IF RadixLiteral(t, {"b", "B"}, 2)
             THEN NumberOfNatural(RadixValue(SubSeq(t, 3, Len(t)), 2))
        ELSE IF u = << "I", "n", "f", "i", "n", "i", "t", "y" >> THEN Infinite
        ELSE IF ip = << >> /\ fp = << >> THEN NaN
        ELSE IF hasExp /\ (ed = << >> \/ LeadingDigits(ed) # ed) THEN NaN
        ELSE IF ~hasExp /\ b # << >> THEN NaN
        ELSE DecimalValue(neg, ip \o fp, (IF hasExp THEN e ELSE 0) - Len(fp))

\* A number as axios serialises it (JSON.stringify): NaN and the infinities
\* become null; << >> is null, << val, exp >> the number val * 10^exp
JsonNumber(n) == IF n.nan \/ n.inf THEN << >> ELSE << n.val, n.exp >>

\* availableSlots / ticketPrice of newEvent
NumberIfLimitedEntry(eventType, text) ==
    IF eventType = "limited-entry" THEN JsonNumber(Number(text)) ELSE << >>

\* As TeamOf, sending the team as typed
TeamAsTyped(eventType, team) == team

\* team of newEvent
TeamOf(eventType, team) == IF eventType = "team-specific" THEN team ELSE ""

\* task.budget ? Number(task.budget) : 0, and the same for totalBudget
TextNumberOrZero(text) == IF text = << >> THEN << 0, 0 >> ELSE JsonNumber(Number(text))

\* formattedTasks of handleSubmit (deadline and budget; the texts are sent as typed)
FormattedTasks(formTasks) ==
    [i \in 1..Len(formTasks) |->
        [deadline |-> formTasks[i].deadline, budget |-> TextNumberOrZero(formTasks[i].budget)]]

\* newEvent of handleSubmit (date, tasks, budget and the fields that depend on
\* the event type; the texts are sent as typed)
NewEventPayload(f) ==
    [kind |-> "event", eventType |-> f.eventType,
     availableSlots |-> NumberIfLimitedEntry(f.eventType, f.availableSlots),
     ticketPrice |-> NumberIfLimitedEntry(f.eventType, f.ticketPrice),
     team |-> TeamOf(f.eventType, f.team),
     date |-> f.date, tasks |-> FormattedTasks(f.tasks),
     totalBudget |-> TextNumberOrZero(f.totalBudget)]

\* The value of a date input: NullDate is the empty string, a positive number a day
\* new Date(a) >= new Date(b): false when either is an Invalid Date (new Date(""))
DateNotBefore(a, b) == a # NullDate /\ b # NullDate /\ a >= b

\* As validateDeadlines, letting a deadline on the event date through
validateDeadlinesUpToDate(f) ==
    \A i \in 1..Len(f.tasks) :
        f.tasks[i].deadline # NullDate =>
            ~(f.date # NullDate /\ f.tasks[i].deadline > f.date)

\* validateDeadlines: false when some task with a deadline has it on or after the
\* event date
validateDeadlines(f) ==
    \A i \in 1..Len(f.tasks) :
        f.tasks[i].deadline # NullDate => ~DateNotBefore(f.tasks[i].deadline, f.date)

\* The task a form starts with and addTask adds
EmptyTask == [deadline |-> NullDate, budget |-> << >>]

\* The options of the event type select: Firm-Wide only for non-managers
EventTypeOptions(userRole) ==
    (IF userRole # "manager" THEN {"firm-wide"} ELSE {}) \cup {"limited-entry", "team-specific"}

\* The component after its first effect: a manager starts on limited-entry,
\* anyone else on firm-wide; token tells whether localStorage holds a token, and
\* outcome what the last handleSubmit did with the fields as they are ("": the
\* form was edited since, or never submitted)
MountedForm(userRole) ==
    [mounted |-> TRUE, userRole |-> userRole,
     eventType |-> IF userRole = "manager" THEN "limited-entry" ELSE "firm-wide",
     availableSlots |-> << >>, ticketPrice |-> << >>, team |-> "",
     date |-> NullDate, totalBudget |-> << >>, tasks |-> << EmptyTask >>,
     token |-> TRUE, outcome |-> "", payload |-> NoBody]

FormFrame ==
    UNCHANGED <<store, clock, inflight, resp, history, reports, req, pay, panel, ctx, chat>>

\* onChange of the select
setEventType(t) ==
    /\ t \in EventTypeOptions(form.userRole)
    /\ form' = [form EXCEPT !.eventType = t, !.outcome = ""]
    /\ FormFrame

\* onChange of the Available Slots input, rendered for limited-entry only;
\* handleNumberChange returns the text whether or not it is a number
setAvailableSlots(text) ==
    /\ form.eventType = "limited-entry"
    /\ form' = [form EXCEPT !.availableSlots = text, !.outcome = ""]
    /\ FormFrame

\* onChange of the Ticket Price input, rendered for limited-entry only
setTicketPrice(text) ==
    /\ form.eventType = "limited-entry"
    /\ form' = [form EXCEPT !.ticketPrice = text, !.outcome = ""]
    /\ FormFrame

\* onChange of the Team input, rendered for team-specific only
setTeam(text) ==
    /\ form.eventType = "team-specific"
    /\ form' = [form EXCEPT !.team = text, !.outcome = ""]
    /\ FormFrame

\* onChange of the date input
setDate(d) ==
    /\ form' = [form EXCEPT !.date = d, !.outcome = ""]
    /\ FormFrame

\* onChange of the Total Budget input; handleNumberChange returns the text
\* whether or not it is a number
setTotalBudget(text) ==
    /\ form' = [form EXCEPT !.totalBudget = text, !.outcome = ""]
    /\ FormFrame

\* handleTaskChange(index, field, value) for the deadline and the budget of a task
handleTaskChange(index, field, value) ==
    /\ index \in 1..Len(form.tasks)
    /\ form' = IF field = "deadline"
               THEN [form EXCEPT !.tasks[index].deadline = value, !.outcome = ""]
               ELSE [form EXCEPT !.tasks[index].budget = value, !.outcome = ""]
    /\ FormFrame

addTask ==
    /\ Len(form.tasks) < MaxFormTasks
    /\ form' = [form EXCEPT !.tasks = Append(@, EmptyTask), !.outcome = ""]
    /\ FormFrame

\* tasks.filter((_, i) => i !== index)
removeTask(index) ==
    /\ index \in 1..Len(form.tasks)
    /\ form' = [form EXCEPT !.tasks = SubSeq(@, 1, index - 1) \o SubSeq(@, index + 1, Len(@)),
                            !.outcome = ""]
    /\ FormFrame

\* localStorage gains or loses its token (a login or logout elsewhere)
storeToken(present) ==
    /\ form' = [form EXCEPT !.token = present, !.outcome = ""]
    /\ FormFrame

\* handleSubmit: the browser submits the form only when the rendered required
\* inputs are filled (the date among them); then the deadlines are validated,
\* the token is read, and newEvent is posted
handleSubmit ==
    /\ form.date # NullDate
    /\ form.eventType = "limited-entry" => form.availableSlots # << >>
    /\ form.eventType = "team-specific" => form.team # ""
    /\ form' = IF ~validateDeadlines(form) THEN [form EXCEPT !.outcome = "deadline alert"]
               ELSE IF ~form.token THEN [form EXCEPT !.outcome = "login"]
               ELSE [form EXCEPT !.outcome = "sent", !.payload = NewEventPayload(form)]
    /\ FormFrame

\* Texts typed into the number inputs
NumberTexts ==
    { << >>, <<"5">>, <<"1", "0">>, <<"x">>, <<"-", "5">>, <<"U+00A0", "5">>, <<"1", "e", "3">>,
      <<"5", ".", "5">> }

TeamTexts == {"", "Ops"}

InitForm ==
    /\ employees = SeedEmployees
    /\ events = << >>
    /\ tasks = << >>
    /\ clock = 0
    /\ inflight = [c \in Clients |-> Idle]
    /\ resp = Response("none", 0, 0, NoBody)
    /\ lastSet = << >>
    /\ returned = << >>
    /\ overlapped = << >>
    /\ fetched = << >>
    /\ reportData = << >>
    /\ budgetByTeam = << >>
    /\ phase = "unmounted"
    /\ req = NoRequest
    /\ \E userRole \in {"manager", "admin"} : form = MountedForm(userRole)
    /\ pay = NotMounted
    /\ panel = NotMounted
    /\ ctx = NotMounted
    /\ chat = NotMounted

\* Days picked in the date inputs
DateValues == {NullDate, 1, 2}

NextForm ==
    \/ \E t \in {"firm-wide", "limited-entry", "team-specific"} : setEventType(t)
    \/ \E text \in NumberTexts : setAvailableSlots(text)
    \/ \E text \in NumberTexts : setTicketPrice(text)
    \/ \E text \in TeamTexts : setTeam(text)
    \/ \E d \in {NullDate, 2} : setDate(d)
    \/ \E text \in { << >>, <<"x">> } : setTotalBudget(text)
    \/ handleSubmit

SpecForm == InitForm /\ [][NextForm]_vars

\* The date, the tasks and the stored token change (a manager's form, which starts
\* on limited-entry without slots, is not submitted here)
NextFormTasks ==
    \/ \E d \in DateValues : setDate(d)
    \/ \E i \in 1..MaxFormTasks, d \in DateValues : handleTaskChange(i, "deadline", d)
    \/ \E i \in 1..MaxFormTasks, text \in { << >>, <<"x">> } : handleTaskChange(i, "budget", text)
    \/ addTask
    \/ \E i \in 1..MaxFormTasks : removeTask(i)
    \/ \E present \in BOOLEAN : storeToken(present)
    \/ handleSubmit

SpecFormTasks == InitForm /\ [][NextFormTasks]_vars

----------------------------------------------------------------------------
(* Status updates over a stored collection of commented tasks *)

\* A stored collection of n tasks created with one event at time 0, each holding
\* k comments of its assignee
InitStatus ==
    /\ employees = SeedEmployees
    /\ events = << SeedEvent >>
    /\ \E n \in 0..(MaxTasks + 1), k \in 0..MaxComments :
          /\ tasks = [i \in 1..n |->
                         [SeedTask(i, 1, 0, 2, MaxTasks + 2) EXCEPT
                             !.comments = [j \in 1..k |-> NewComment("e@x", "hi", 0)]]]
          /\ lastSet = [i \in 1..n |-> [status |-> "", code |-> 0]]
          /\ returned = [i \in 1..n |-> << >>]
          /\ overlapped = [i \in 1..n |-> FALSE]
    /\ clock = 0
    /\ inflight = [c \in Clients |-> Idle]
    /\ resp = Response("none", 0, 0, NoBody)
    /\ fetched = << >>
    /\ reportData = << >>
    /\ budgetByTeam = << >>
    /\ phase = "unmounted"
    /\ req = NoRequest
    /\ form = NotMounted
    /\ pay = NotMounted
    /\ panel = NotMounted
    /\ ctx = NotMounted
    /\ chat = NotMounted

\* Status updates and reads of one task, with any credential, as time passes
NextStatus ==
    \/ Tick /\ Untraced
    \/ \E id \in 0..(MaxTasks + 2) :
          /\ getTaskById(id)
          /\ req' = TaskRequest("getTaskById", id, TRUE, "")
          /\ UNCHANGED client
    \/ \E id \in 0..(MaxTasks + 2), status \in StatusValues, cred \in TaskCredentials :
          /\ updateTaskStatus(id, status)
          /\ req' = TaskRequest("updateTaskStatus", id, status # "",
                                Caller(cred[1], cred[2]))
          /\ UNCHANGED client

SpecStatus == InitStatus /\ [][NextStatus]_vars

----------------------------------------------------------------------------
(* The paginated creator lists: getTasks and getEventsByCreator *)

\* An event of a stored collection: creators and dates vary with the position i;
\* some events have no date (date is optional in eventSchema: NullDate sorts
\* before every date) and some share the date of the event before them
SeedDatedEvent(i) ==
    [eventType |-> "firm-wide", availableSlots |-> 0, team |-> "", totalBudget |-> 0,
     attendees |-> << >>, creator |-> IF i % 4 = 0 THEN "a@x" ELSE "m@x",
     date |-> IF i % 7 = 0 THEN NullDate ELSE IF i % 6 = 0 THEN 30 - i ELSE 31 - i]

\* sort({ date: 1 }): event i has to go before event j; the sort puts no order on
\* two documents with equal dates
EventSortsBefore(i, j) == events[i].date < events[j].date

RECURSIVE EventOrders(_)
\* The orders in which a sorted cursor may return the events of the set S
EventOrders(S) ==
    IF S = {} THEN { << >> }
    ELSE UNION { { << i >> \o t : t \in EventOrders(S \ {i}) } :
                   i \in { i \in S : \A j \in S : ~EventSortsBefore(j, i) } }

\* Event.find({ creator }).sort({ date: 1 }): the lists of ids a query may return
FindEventsSorted(creator) ==
    EventOrders({ i \in 1..Len(events) : events[i].creator = creator })

\* userEmail "" stands for no user-email header; the server rejects a negative
\* skip, caught as 500, and rejects or clamps a skip that is no 64-bit integer
\* (as in getTasks); an empty page is answered 404; the body lists the _id of the
\* documents returned
getEventsByCreator(userEmail, pageParam) ==
    /\ IF userEmail = "" THEN resp' = Response("getEventsByCreator", 400, 0, NoBody)
       ELSE IF SkipOf(PageOf(pageParam)).val < 0
       THEN resp' = Response("getEventsByCreator", 500, 0, NoBody)
       ELSE IF BeyondInt64(SkipOf(PageOf(pageParam)))
       THEN \E code \in {500, 404} : resp' = Response("getEventsByCreator", code, 0, NoBody)
       ELSE \E sorted \in FindEventsSorted(userEmail) :
               LET found == SkipLimit(sorted, SkipOf(PageOf(pageParam)).val, PageLimit)
               IN  resp' = IF Len(found) = 0
                           THEN Response("getEventsByCreator", 404, 0, NoBody)
                           ELSE Response("getEventsByCreator", 200, 0,
                                         [kind |-> "list", email |-> userEmail, ids |-> found])
    /\ UNCHANGED <<store, clock, inflight, history, reports>>

\* query.eventID of a request without that parameter (undefined)
NoId == 0 - 1

RECURSIVE FindByEvent(_, _)
\* Task.find({ eventID }) over the tasks 1..n: the ids in the order of the collection
FindByEvent(eventID, n) ==
    IF n = 0 THEN << >>
    ELSE IF tasks[n].eventID = eventID THEN Append(FindByEvent(eventID, n - 1), n)
    ELSE FindByEvent(eventID, n - 1)

\* As getTasksByEventID, answering 404 when no Event has the identifier
getTasksByEventIDOfStoredEvent(eventID) ==
    /\ resp' =
         IF ~IsValidObjectId(eventID) THEN Response("getTasksByEventID", 400, 0, NoBody)
         ELSE IF eventID \notin 1..Len(events)
         THEN Response("getTasksByEventID", 404, 0, NoBody)
         ELSE Response("getTasksByEventID", 200, 0,
                       [kind |-> "list", ids |-> FindByEvent(eventID, Len(tasks))])
    /\ UNCHANGED <<store, clock, inflight, history, reports>>

\* ObjectId.isValid(undefined) is false: a request without eventID is answered
\* as one with a malformed eventID; the Event collection is not read
getTasksByEventID(eventID) ==
    /\ resp' =
         IF ~IsValidObjectId(eventID) THEN Response("getTasksByEventID", 400, 0, NoBody)
         ELSE Response("getTasksByEventID", 200, 0,
                       [kind |-> "list", ids |-> FindByEvent(eventID, Len(tasks))])
    /\ UNCHANGED <<store, clock, inflight, history, reports>>

\* query.eventID: absent, malformed, the events tasks refer to, one beyond
EventIdParams == {NoId, BadId, 1, 2, 3, MaxListed + 2}

\* A stored collection of n events and n tasks; the tasks refer to three events,
\* stored or not (nothing ties Task.eventID to a stored Event)
InitPaging ==
    /\ employees = SeedEmployees
    /\ \E n \in 0..MaxListed, m \in {1, 2} :
          /\ events = [i \in 1..n |-> SeedDatedEvent(i)]
          /\ tasks = [i \in 1..n |-> [SeedTask(i, 1, 0, m, 1) EXCEPT !.eventID = 1 + (i % 3)]]
          /\ lastSet = [i \in 1..n |-> [status |-> "", code |-> 0]]
          /\ returned = [i \in 1..n |-> << >>]
          /\ overlapped = [i \in 1..n |-> FALSE]
    /\ clock = 0
    /\ inflight = [c \in Clients |-> Idle]
    /\ resp = Response("none", 0, 0, NoBody)
    /\ fetched = << >>
    /\ reportData = << >>
    /\ budgetByTeam = << >>
    /\ phase = "unmounted"
    /\ req = NoRequest
    /\ form = NotMounted
    /\ pay = NotMounted
    /\ panel = NotMounted
    /\ ctx = NotMounted
    /\ chat = NotMounted

NextPaging ==
    \/ \E e \in {"a@x", "m@x", ""}, p \in PageParams :
          /\ getTasks(e, p)
          /\ req' = [op |-> "getTasks", email |-> e, page |-> p]
          /\ UNCHANGED client
    \/ \E e \in {"a@x", "m@x", ""}, p \in PageParams :
          /\ getEventsByCreator(e, p)
          /\ req' = [op |-> "getEventsByCreator", email |-> e, page |-> p]
          /\ UNCHANGED client
    \/ \E id \in EventIdParams :
          /\ getTasksByEventID(id)
          /\ req' = [op |-> "getTasksByEventID", email |-> "", page |-> << >>, id |-> id]
          /\ UNCHANGED client

SpecPaging == InitPaging /\ [][NextPaging]_vars

----------------------------------------------------------------------------
(* RazorpayButton: handlePayment, the client side of the payment flow *)

\* One step of a run of handlePayment, with the status code or order id it carries
Step(step, code) == [step |-> step, code |-> code]

\* What `await response.json()` of create-order may give: an order, the JSON body
\* of an error answer (fetch does not reject on an HTTP error: order.id and
\* order.amount are then undefined, written 0), or nothing (fetch or json() threw)
CreateOrderAnswers ==
    { [kind |-> "order", id |-> 7, amount |-> 500],
      [kind |-> "error-json", id |-> 0, amount |-> 0],
      [kind |-> "threw", id |-> 0, amount |-> 0] }

\* Status codes confirm-payment may answer with
ConfirmCodes == {200, 201, 400, 500}

\* The button as mounted: isRSVPd starts false and rendered is the isRSVPd of
\* the last render, which disables the button; runs holds the calls of
\* handlePayment so far. batched tells the root the build creates (src/ holds
\* no index.js): a batched root renders a state update in a later step, a
\* legacy root renders an update made outside a React event handler at once
MountedButton(batched) ==
    [mounted |-> TRUE, batched |-> batched, isRSVPd |-> FALSE, rendered |-> FALSE,
     runs |-> << >>]

\* setIsRSVPd(value): the state is set, and on a legacy root rendered with it
SetIsRSVPd(p, value) ==
    [p EXCEPT !.isRSVPd = value, !.rendered = IF p.batched THEN @ ELSE value]

PayFrame ==
    UNCHANGED <<store, clock, inflight, resp, history, reports, req, form, panel, ctx, chat>>

\* The effect on [event, loggedInUser]: isRSVPd follows the attendees of the
\* event passed to the button
attendeesEffect(isUserAttendee) ==
    /\ pay' = SetIsRSVPd(pay, isUserAttendee)
    /\ PayFrame

\* The render React schedules after a state update on a batched root: the
\* button shows "RSVP'd" and is disabled when isRSVPd
renderButton ==
    /\ pay.rendered # pay.isRSVPd
    /\ pay' = [pay EXCEPT !.rendered = pay.isRSVPd]
    /\ PayFrame

\* A click on the button (disabled={isRSVPd} of the last render): handlePayment
\* posts create-order
handlePayment ==
    /\ ~pay.rendered
    /\ Len(pay.runs) < MaxRuns
    /\ pay' = [pay EXCEPT !.runs = Append(@, [pc |-> "create-order", orderId |-> 0,
                                              log |-> << Step("create-order", 0) >>])]
    /\ PayFrame

\* create-order is answered: with a JSON body, the order or the body of an error
\* answer (response.ok is not looked at), the gateway's checkout is opened with
\* order_id: order.id; when fetch or json() throws the catch block alerts
createOrderAnswered(r, answer) ==
    /\ pay.runs[r].pc = "create-order"
    /\ pay' = IF answer.kind = "threw"
              THEN [pay EXCEPT !.runs[r].pc = "done",
                               !.runs[r].log = Append(@, Step("init-error", 0))]
              ELSE [pay EXCEPT !.runs[r].pc = "gateway",
                               !.runs[r].orderId = answer.id,
                               !.runs[r].log = @ \o << Step(answer.kind, answer.id),
                                                      Step("open", answer.id) >>]
    /\ PayFrame

\* The razorpay_order_id the gateway may pass to options.handler: the id of the
\* order, another id, or none (written 0)
GatewayOrderIds == {7, 9, 0}

\* The gateway calls options.handler(response): the handler posts confirm-payment
\* with response.razorpay_order_id, the identifier the gateway passed, whatever
\* the checkout was opened with
gatewaySuccess(r, id) ==
    /\ pay.runs[r].pc = "gateway"
    /\ pay' = [pay EXCEPT !.runs[r].pc = "confirm",
                          !.runs[r].log = @ \o << Step("success", id),
                                                 Step("confirm-payment", id) >>]
    /\ PayFrame

\* The checkout is closed or the payment fails: the handler is never called
gatewayNoSuccess(r) ==
    /\ pay.runs[r].pc = "gateway"
    /\ pay' = [pay EXCEPT !.runs[r].pc = "done",
                          !.runs[r].log = Append(@, Step("no-success", 0))]
    /\ PayFrame

\* confirm-payment is answered: axios resolves for a 2xx status and rejects
\* otherwise (default validateStatus); setIsRSVPd(true) under res.status === 200
confirmAnswered(r, code) ==
    /\ pay.runs[r].pc = "confirm"
    /\ pay' = IF ~(code >= 200 /\ code < 300)
              THEN [pay EXCEPT !.runs[r].pc = "done",
                               !.runs[r].log = Append(@, Step("confirm-failed", code))]
              ELSE IF code = 200
              THEN [SetIsRSVPd(pay, TRUE) EXCEPT
                               !.runs[r].pc = "done",
                               !.runs[r].log = @ \o << Step("confirm-answered", code),
                                                      Step("setIsRSVPd", 0) >>]
              ELSE [pay EXCEPT !.runs[r].pc = "done",
                               !.runs[r].log = Append(@, Step("confirm-answered", code))]
    /\ PayFrame

InitPay ==
    /\ employees = SeedEmployees
    /\ events = << >>
    /\ tasks = << >>
    /\ clock = 0
    /\ inflight = [c \in Clients |-> Idle]
    /\ resp = Response("none", 0, 0, NoBody)
    /\ lastSet = << >>
    /\ returned = << >>
    /\ overlapped = << >>
    /\ fetched = << >>
    /\ reportData = << >>
    /\ budgetByTeam = << >>
    /\ phase = "unmounted"
    /\ req = NoRequest
    /\ form = NotMounted
    /\ \E batched \in BOOLEAN : pay = MountedButton(batched)
    /\ panel = NotMounted
    /\ ctx = NotMounted
    /\ chat = NotMounted

NextPay ==
    \/ \E b \in BOOLEAN : attendeesEffect(b)
    \/ renderButton
    \/ handlePayment
    \/ \E r \in 1..MaxRuns, answer \in CreateOrderAnswers :
          r <= Len(pay.runs) /\ createOrderAnswered(r, answer)
    \/ \E r \in 1..MaxRuns, id \in GatewayOrderIds :
          r <= Len(pay.runs) /\ gatewaySuccess(r, id)
    \/ \E r \in 1..MaxRuns : r <= Len(pay.runs) /\ gatewayNoSuccess(r)
    \/ \E r \in 1..MaxRuns, code \in ConfirmCodes :
          r <= Len(pay.runs) /\ confirmAnswered(r, code)

SpecPay == InitPay /\ [][NextPay]_vars

----------------------------------------------------------------------------
(* NotificationPanel: the assigned-task fetch and the socket handlers *)

\* An entry of the panel's list: a task (with the number of its comments) or an event
Entry(id, kind, status, comments) ==
    [id |-> id, kind |-> kind, status |-> status, comments |-> comments]

\* A message of the push channel
Push(type, id, assignee, status, eventType, team) ==
    [type |-> type, id |-> id, assignee |-> assignee, status |-> status,
     eventType |-> eventType, team |-> team]

\* The _id of the event the pushes announce (no task has it)
PushedEventId == 101

\* loggedInUser.team
TeamOfUser(email) ==
    SeedEmployees[CHOOSE i \in 1..Len(SeedEmployees) : SeedEmployees[i].email = email].team

\* As ActiveTasks, keeping every task of the response
AllTasksOfResponse(data) == data

\* res.data.filter(task => task.status !== "Completed")
ActiveTasks(data) == SelectSeq(data, LAMBDA entry : entry.status # "Completed")

\* prevTasks.some((prevTask) => prevTask._id === id)
IsDuplicate(list, id) == \E k \in 1..Len(list) : list[k].id = id

\* The body of a 200 answer of GET /api/tasks/assigned: the documents of the ids
TaskEntries(ids) ==
    [k \in 1..Len(ids) |->
        Entry(ids[k], "task", tasks[ids[k]].status, Len(tasks[ids[k]].comments))]

\* A call of fetchTasks for a user: sent, then answered by the server, then received
FetchSent(user) == [user |-> user, pc |-> "sent", code |-> 0, data |-> << >>]

\* The panel after its effect ran for loggedInUser (email user, team team): the
\* handlers are registered and, when localStorage holds a token at that moment,
\* the fetch is sent; added is a history of the ids of the newTask pushes the
\* panel put into its list for this user, runs counts the runs of the effect
MountedPanel(user, team, token) ==
    [mounted |-> TRUE, user |-> user, team |-> team, list |-> << >>,
     fetches |-> IF token THEN << FetchSent(user) >> ELSE << >>,
     feed |-> {}, added |-> {}, runs |-> 1]

\* The messages of the push channel under way
Feed == IF panel.mounted THEN panel.feed ELSE {}

\* The channel takes one more message
FeedHasRoom == Cardinality(panel.feed) < MaxFeed

PanelFrame == UNCHANGED <<clock, inflight, reports, req, form, pay, ctx, chat>>

\* GET /api/tasks/assigned is handled for fetch k
serveAssigned(k) ==
    /\ panel.mounted
    /\ k \in 1..Len(panel.fetches)
    /\ panel.fetches[k].pc = "sent"
    /\ getTasksByAssignee(panel.fetches[k].user)
    /\ panel' = [panel EXCEPT !.fetches[k] =
                    [user |-> @.user, pc |-> "answered", code |-> resp'.code,
                     data |-> IF resp'.code = 200 THEN TaskEntries(resp'.body.ids)
                              ELSE << >>]]
    /\ UNCHANGED <<req, form, pay, ctx, chat>>

\* The answer of fetch k arrives: setTasks(activeTasks) for a 200 answer; axios
\* rejects any other and the catch only logs
receiveAssigned(k) ==
    /\ panel.mounted
    /\ k \in 1..Len(panel.fetches)
    /\ panel.fetches[k].pc = "answered"
    /\ panel' = [panel EXCEPT
                    !.fetches = SubSeq(@, 1, k - 1) \o SubSeq(@, k + 1, Len(@)),
                    !.list = IF panel.fetches[k].code = 200
                             THEN ActiveTasks(panel.fetches[k].data) ELSE @]
    /\ UNCHANGED <<store, resp, history>>
    /\ PanelFrame

\* A task is created on the server and announced on the push channel
createTaskAndNotify(assignee) ==
    /\ panel.mounted /\ FeedHasRoom
    /\ Len(tasks) < MaxTasks + 1
    /\ tasks' = Append(tasks, NewTask(TaskPayload(assignee, NullDate), 1,
                                      [email |-> "m@x"], clock))
    /\ lastSet' = Append(lastSet, [status |-> "", code |-> 0])
    /\ returned' = Append(returned, << >>)
    /\ overlapped' = Append(overlapped, FALSE)
    /\ panel' = [panel EXCEPT !.feed = @ \cup
                    {Push("newTask", Len(tasks) + 1, assignee, DefaultStatus, "", "")}]
    /\ UNCHANGED <<employees, events, resp>>
    /\ PanelFrame

\* A stored task is announced on the push channel, as it is stored
notifyTask(taskId) ==
    /\ panel.mounted /\ FeedHasRoom
    /\ taskId \in 1..Len(tasks)
    /\ panel' = [panel EXCEPT !.feed = @ \cup
                    {Push("newTask", taskId, tasks[taskId].assignee, tasks[taskId].status,
                          "", "")}]
    /\ UNCHANGED <<store, resp, history>>
    /\ PanelFrame

\* A comment on a task is announced on the push channel
notifyComment(taskId) ==
    /\ panel.mounted /\ FeedHasRoom
    /\ taskId \in 1..Len(tasks)
    /\ panel' = [panel EXCEPT !.feed = @ \cup {Push("newComment", taskId, "", "", "", "")}]
    /\ UNCHANGED <<store, resp, history>>
    /\ PanelFrame

\* A new event is announced on the push channel
notifyEvent(eventType, team) ==
    /\ panel.mounted /\ FeedHasRoom
    /\ panel' = [panel EXCEPT !.feed = @ \cup
                    {Push("newEvent", PushedEventId, "", "", eventType, team)}]
    /\ UNCHANGED <<store, resp, history>>
    /\ PanelFrame

\* A message of the push channel is lost
losePush(m) ==
    /\ panel.mounted
    /\ m \in panel.feed
    /\ panel' = [panel EXCEPT !.feed = @ \ {m}]
    /\ UNCHANGED <<store, resp, history>>
    /\ PanelFrame

\* socket.on("newTask")
onNewTask(m) ==
    /\ panel.mounted
    /\ m \in panel.feed /\ m.type = "newTask"
    /\ panel' = IF m.assignee = panel.user /\ m.status # "Completed"
               THEN [panel EXCEPT
                       !.feed = @ \ {m},
                       !.list = IF IsDuplicate(@, m.id) THEN @
                                ELSE Append(@, Entry(m.id, "task", m.status, 0)),
                       !.added = IF IsDuplicate(panel.list, m.id) THEN @ ELSE @ \cup {m.id}]
               ELSE [panel EXCEPT !.feed = @ \ {m}]
    /\ UNCHANGED <<store, resp, history>>
    /\ PanelFrame

\* socket.on("newComment"): the comment is appended to the entry of the task
\* when that entry is not Completed
onNewComment(m) ==
    /\ panel.mounted
    /\ m \in panel.feed /\ m.type = "newComment"
    /\ \A k \in 1..Len(panel.list) : panel.list[k].comments < MaxComments
    /\ panel' = [panel EXCEPT
                    !.feed = @ \ {m},
                    !.list = [k \in 1..Len(@) |->
                                IF @[k].id = m.id /\ @[k].status # "Completed"
                                THEN [@[k] EXCEPT !.comments = @ + 1] ELSE @[k]]]
    /\ UNCHANGED <<store, resp, history>>
    /\ PanelFrame

\* socket.on("newEvent")
onNewEvent(m) ==
    /\ panel.mounted
    /\ m \in panel.feed /\ m.type = "newEvent"
    /\ panel' = IF m.eventType = "firm-wide" \/ m.team = panel.team
               THEN [panel EXCEPT
                       !.feed = @ \ {m},
                       !.list = IF IsDuplicate(@, m.id) THEN @
                                ELSE Append(@, Entry(m.id, "event", "", 0))]
               ELSE [panel EXCEPT !.feed = @ \ {m}]
    /\ UNCHANGED <<store, resp, history>>
    /\ PanelFrame

\* loggedInUser.email or loggedInUser.team changes (the dependencies of the
\* effect): the effect is cleaned up and runs again, the list stays; fetchTasks
\* reads the token from localStorage anew, token telling whether it finds one
changeUser(user, team, token) ==
    /\ panel.mounted
    /\ user # panel.user \/ team # panel.team
    /\ panel.runs < MaxRuns
    /\ panel' = [panel EXCEPT
                    !.user = user, !.team = team, !.runs = @ + 1,
                    !.added = IF user # panel.user THEN {} ELSE @,
                    !.fetches = IF token THEN Append(@, FetchSent(user)) ELSE @]
    /\ UNCHANGED <<store, resp, history>>
    /\ PanelFrame

unmountPanel ==
    /\ panel.mounted
    /\ panel' = NotMounted
    /\ UNCHANGED <<store, resp, history>>
    /\ PanelFrame

\* A task of the stored collection the panel is mounted over
PanelSeedTask(i) ==
    [SeedTask(i, 1, 0, 2, 1) EXCEPT !.status = "Completed", !.assignee = "e@x"]

InitPanel ==
    /\ employees = SeedEmployees
    /\ events = << SeedEvent >>
    /\ \E n \in 0..MaxTasks :
          /\ tasks = [i \in 1..n |-> PanelSeedTask(i)]
          /\ lastSet = [i \in 1..n |-> [status |-> "", code |-> 0]]
          /\ returned = [i \in 1..n |-> << >>]
          /\ overlapped = [i \in 1..n |-> FALSE]
    /\ clock = 0
    /\ inflight = [c \in Clients |-> Idle]
    /\ resp = Response("none", 0, 0, NoBody)
    /\ fetched = << >>
    /\ reportData = << >>
    /\ budgetByTeam = << >>
    /\ phase = "unmounted"
    /\ req = NoRequest
    /\ form = NotMounted
    /\ pay = NotMounted
    /\ \E token \in BOOLEAN : panel = MountedPanel("e@x", TeamOfUser("e@x"), token)
    /\ ctx = NotMounted
    /\ chat = NotMounted

NextPanel ==
    \/ \E k \in 1..MaxRuns : serveAssigned(k)
    \/ \E k \in 1..MaxRuns : receiveAssigned(k)
    \/ \E assignee \in {"e@x", "m@x"} : createTaskAndNotify(assignee)
    \/ \E id \in 1..(MaxTasks + 1) : notifyTask(id)
    \/ \E id \in 1..(MaxTasks + 1) : notifyComment(id)
    \/ \E team \in {"", "Ops", "HR"} :
          notifyEvent(IF team = "" THEN "firm-wide" ELSE "team-specific", team)
    \/ \E m \in Feed : losePush(m)
    \/ \E m \in Feed : onNewTask(m)
    \/ \E m \in Feed : onNewComment(m)
    \/ \E m \in Feed : onNewEvent(m)
    \/ \E user \in {"e@x", "m@x"}, team \in {"Ops", "HR"}, token \in BOOLEAN :
          changeUser(user, team, token)
    \/ unmountPanel

SpecPanel == InitPanel /\ [][NextPanel]_vars

----------------------------------------------------------------------------
(* EventContext: fetchEventTasks, called by the effect of EventTasksPage *)

\* lastFetchedEventID before any fetch (null), and the eventID of no page
NoEvent == 0 - 2

\* The provider as mounted; page is the eventID of the EventTasksPage on display
\* (NoEvent when none is), fetches the calls of fetchEventTasks awaiting
\* axios.get, closure the lastFetchedEventID of the last render, which is the one
\* the fetchEventTasks of that render (useCallback) compares with
MountedContext ==
    [mounted |-> TRUE, page |-> NoEvent, selectedEventTasks |-> << >>,
     lastFetchedEventID |-> NoEvent, closure |-> NoEvent, fetches |-> << >>]

\* A call of fetchEventTasks past its guard: the request is sent
EventTasksFetch(eventID) == [id |-> eventID, pc |-> "sent", code |-> 0, data |-> << >>]

\* fetchEventTasks(eventID) up to its await: nothing when there is no eventID or
\* it is the last fetched one of the render the function is of
FetchesAfterCall(c, eventID) ==
    IF eventID = NoEvent \/ eventID = c.closure THEN c.fetches
    ELSE Append(c.fetches, EventTasksFetch(eventID))

ContextFrame == UNCHANGED <<clock, inflight, reports, req, form, pay, panel, chat>>

\* An EventTasksPage is shown for eventID: it is rendered with the state as it
\* is, and its effect calls the fetchEventTasks of that render
openPage(eventID) ==
    /\ ctx.mounted
    /\ eventID # ctx.page
    /\ Len(ctx.fetches) < MaxRuns
    /\ ctx' = [ctx EXCEPT
                  !.page = eventID, !.closure = ctx.lastFetchedEventID,
                  !.fetches = FetchesAfterCall([ctx EXCEPT !.closure = ctx.lastFetchedEventID],
                                               eventID)]
    /\ UNCHANGED <<store, resp, history>>
    /\ ContextFrame

\* GET /api/admin/tasks?eventID= is handled for fetch k
serveEventTasks(k) ==
    /\ ctx.mounted
    /\ k \in 1..Len(ctx.fetches)
    /\ ctx.fetches[k].pc = "sent"
    /\ getTasksByEventID(ctx.fetches[k].id)
    /\ ctx' = [ctx EXCEPT !.fetches[k] =
                  [id |-> @.id, pc |-> "answered", code |-> resp'.code,
                   data |-> IF resp'.code = 200 THEN resp'.body.ids ELSE << >>]]
    /\ UNCHANGED <<req, form, pay, panel, chat>>

\* The request of fetch k fails without an answer (the network, a timeout)
failEventTasks(k) ==
    /\ ctx.mounted
    /\ k \in 1..Len(ctx.fetches)
    /\ ctx.fetches[k].pc = "sent"
    /\ ctx' = [ctx EXCEPT !.fetches[k] =
                  [id |-> @.id, pc |-> "answered", code |-> 0, data |-> << >>]]
    /\ UNCHANGED <<store, resp, history>>
    /\ ContextFrame

\* axios.get of fetch k settles and fetchEventTasks goes on after its await: on a
\* 200 answer it sets the tasks and the last fetched id, otherwise the catch
\* block empties the tasks; the states are set, nothing is rendered yet
receiveEventTasks(k) ==
    /\ ctx.mounted
    /\ k \in 1..Len(ctx.fetches)
    /\ ctx.fetches[k].pc = "answered"
    /\ LET rest == SubSeq(ctx.fetches, 1, k - 1) \o SubSeq(ctx.fetches, k + 1, Len(ctx.fetches))
       IN  ctx' = IF ctx.fetches[k].code = 200
                  THEN [ctx EXCEPT !.selectedEventTasks = ctx.fetches[k].data,
                                   !.lastFetchedEventID = ctx.fetches[k].id,
                                   !.fetches = rest]
                  ELSE [ctx EXCEPT !.selectedEventTasks = << >>, !.fetches = rest]
    /\ UNCHANGED <<store, resp, history>>
    /\ ContextFrame

\* The provider renders after lastFetchedEventID changed, at once or after
\* several answers were handled (updates set outside an event handler are
\* rendered one by one or batched, as the root is created): fetchEventTasks is a
\* new function, so the effect of the page on display runs again and calls it
renderContext ==
    /\ ctx.mounted
    /\ ctx.closure # ctx.lastFetchedEventID
    /\ Len(ctx.fetches) < MaxRuns
    /\ ctx' = [ctx EXCEPT
                  !.closure = ctx.lastFetchedEventID,
                  !.fetches = FetchesAfterCall([ctx EXCEPT !.closure = ctx.lastFetchedEventID],
                                               ctx.page)]
    /\ UNCHANGED <<store, resp, history>>
    /\ ContextFrame

\* The page is left (navigate(-1)); the provider stays mounted
closePage ==
    /\ ctx.mounted
    /\ ctx.page # NoEvent
    /\ ctx' = [ctx EXCEPT !.page = NoEvent]
    /\ UNCHANGED <<store, resp, history>>
    /\ ContextFrame

\* Two stored events and n tasks that refer to them in turn
InitContext ==
    /\ employees = SeedEmployees
    /\ events = << SeedEvent, SeedEvent >>
    /\ \E n \in 0..(MaxTasks + 1) :
          /\ tasks = [i \in 1..n |-> [SeedTask(i, 1, 0, 2, 1) EXCEPT !.eventID = 1 + (i % 2)]]
          /\ lastSet = [i \in 1..n |-> [status |-> "", code |-> 0]]
          /\ returned = [i \in 1..n |-> << >>]
          /\ overlapped = [i \in 1..n |-> FALSE]
    /\ clock = 0
    /\ inflight = [c \in Clients |-> Idle]
    /\ resp = Response("none", 0, 0, NoBody)
    /\ fetched = << >>
    /\ reportData = << >>
    /\ budgetByTeam = << >>
    /\ phase = "unmounted"
    /\ req = NoRequest
    /\ form = NotMounted
    /\ pay = NotMounted
    /\ panel = NotMounted
    /\ ctx = MountedContext
    /\ chat = NotMounted

\* The eventID of a page: of a stored event, or malformed
NextContext ==
    \/ \E eventID \in {BadId, 1, 2} : openPage(eventID)
    \/ \E k \in 1..MaxRuns : serveEventTasks(k)
    \/ \E k \in 1..MaxRuns : failEventTasks(k)
    \/ \E k \in 1..MaxRuns : receiveEventTasks(k)
    \/ renderContext
    \/ closePage

SpecContext == InitContext /\ [][NextContext]_vars

----------------------------------------------------------------------------
(* Chat: sendMessage, the Send button and the Enter key *)

\* The component after its first effect: the greeting of the bot is the one
\* message; input is the sequence of the characters typed; outstanding counts the
\* calls of sendMessage awaiting fetch
MountedChat ==
    [mounted |-> TRUE, isOpen |-> FALSE, input |-> << >>, loading |-> FALSE,
     messages |-> << "bot" >>, outstanding |-> 0]

ChatFrame ==
    UNCHANGED <<store, clock, inflight, resp, history, reports, req, form, pay, panel, ctx>>

\* The chat bubble and the close button
setIsOpen(open) ==
    /\ chat.mounted
    /\ chat.isOpen # open
    /\ chat' = [chat EXCEPT !.isOpen = open]
    /\ ChatFrame

\* onChange of the input
setInput(text) ==
    /\ chat.mounted /\ chat.isOpen
    /\ chat' = [chat EXCEPT !.input = text]
    /\ ChatFrame

\* sendMessage up to its await: the request is posted
sendMessage ==
    /\ Len(chat.messages) < 2 * MaxRuns
    /\ chat' = IF TrimWhiteSpace(chat.input) = << >> THEN chat
               ELSE [chat EXCEPT !.messages = Append(@, "user"), !.input = << >>,
                                 !.loading = TRUE, !.outstanding = @ + 1]
    /\ ChatFrame

\* A click on the Send button, disabled while loading
clickSend ==
    /\ chat.mounted /\ chat.isOpen
    /\ ~chat.loading
    /\ sendMessage

\* handleKeyPress for the Enter key
pressEnter ==
    /\ chat.mounted /\ chat.isOpen
    /\ TrimWhiteSpace(chat.input) # << >>
    /\ sendMessage

\* fetch of one call settles: the answer of the bot, or the apology of the catch
\* block when the response is not ok, is appended and finally sets loading to false
settleMessage(ok) ==
    /\ chat.mounted
    /\ chat.outstanding > 0
    /\ chat' = [chat EXCEPT !.messages = Append(@, IF ok THEN "bot" ELSE "error"),
                            !.loading = FALSE, !.outstanding = @ - 1]
    /\ ChatFrame

InitChat ==
    /\ employees = SeedEmployees
    /\ events = << >>
    /\ tasks = << >>
    /\ clock = 0
    /\ inflight = [c \in Clients |-> Idle]
    /\ resp = Response("none", 0, 0, NoBody)
    /\ lastSet = << >>
    /\ returned = << >>
    /\ overlapped = << >>
    /\ fetched = << >>
    /\ reportData = << >>
    /\ budgetByTeam = << >>
    /\ phase = "unmounted"
    /\ req = NoRequest
    /\ form = NotMounted
    /\ pay = NotMounted
    /\ panel = NotMounted
    /\ ctx = NotMounted
    /\ chat = MountedChat

\* Texts typed into the input
ChatTexts == { << >>, << " " >>, << " ", " " >>, << "U+FEFF" >>, << "h", "i" >>, << " ", "o", "k", " " >> }

NextChat ==
    \/ \E open \in BOOLEAN : setIsOpen(open)
    \/ \E text \in ChatTexts : setInput(text)
    \/ clickSend
    \/ pressEnter
    \/ \E ok \in BOOLEAN : settleMessage(ok)

SpecChat == InitChat /\ [][NextChat]_vars

----------------------------------------------------------------------------
(* Properties *)

IsPrefix(p, q) == Len(p) <= Len(q) /\ SubSeq(q, 1, Len(p)) = p

NonDecreasingTimestamps(comments) ==
    \A i, j \in 1..Len(comments) : i < j => comments[i].timestamp <= comments[j].timestamp

CommentOps == {"addCommentToTask_Assignee", "addCommentToTask"}

\* C1: on an existing task every status-update request with a well-formed id and a
\* status succeeds whatever the current status is, and the stored status is the
\* value of the last such request
StatusIsLastValueSet ==
    \A t \in 1..Len(tasks) :
        lastSet[t].status # "" =>
            lastSet[t].code = 200 /\ tasks[t].status = lastSet[t].status

\* C1 witness: a task that was Completed when a comment append loaded it has been
\* set back to Pending
StatusWasSetBack ==
    /\ resp.op \in CommentOps /\ resp.code = 201
    /\ resp.body.doc.status = "Completed"
    /\ tasks[resp.body.id].status = "Pending"
    /\ lastSet[resp.body.id] = [status |-> "Pending", code |-> 200]

\* C2: on a task whose comment appends never overlapped, the stored comments are
\* the appended comments in the order of the appends, with non-decreasing
\* timestamps
SequentialAppendsInOrder ==
    \A t \in 1..Len(tasks) :
        ~overlapped[t] =>
            tasks[t].comments = returned[t] /\ NonDecreasingTimestamps(tasks[t].comments)

\* C2 witness: two appends one after the other, one through each endpoint, at
\* different times
TwoSequentialAppends ==
    \E t \in 1..Len(tasks) :
        /\ ~overlapped[t]
        /\ Len(tasks[t].comments) = 2
        /\ tasks[t].comments[1].author = "e@x" /\ tasks[t].comments[2].author = "m@x"
        /\ tasks[t].comments[1].timestamp < tasks[t].comments[2].timestamp

\* C3: POST /api/events without a valid credential is answered 401 and leaves the
\* Employee, Event and Task collections unchanged
UnauthenticatedChangesNothing ==
    [][(resp'.op = "createEvent" /\ ~resp'.credential) =>
          (resp'.code = 401 /\ UNCHANGED <<employees, events, tasks>>)]_vars

\* C3 witness: a create-event request without a valid credential was answered 401
\* on a store that holds an event
RejectedCreateEvent ==
    /\ resp.op = "createEvent" /\ ~resp.credential
    /\ resp.code = 401 /\ Len(events) = 1

\* C7: no identifier appears twice in the attendees of an event
NoDuplicateAttendees ==
    \A e \in 1..Len(events) :
        \A i, j \in 1..Len(events[e].attendees) :
            i # j => events[e].attendees[i] # events[e].attendees[j]

\* C8: the stored status of every task is Pending, In Progress or Completed
StatusInEnum == \A t \in 1..Len(tasks) : tasks[t].status \in StatusEnum

\* C9: a step never removes or reorders the stored comments of a task, and the
\* comment of an append that answers 201 is stored after them
CommentsAppendOnly ==
    [][\A t \in 1..Len(tasks) :
          /\ IsPrefix(tasks[t].comments, tasks'[t].comments)
          /\ returned'[t] # returned[t] =>
                /\ Len(tasks'[t].comments) = Len(tasks[t].comments) + 1
                /\ tasks'[t].comments[Len(tasks'[t].comments)] = returned'[t][Len(returned'[t])]]_vars

\* C9 witness: two overlapping appends are both stored (the second answers with a
\* document that lacks the first comment)
OverlappingAppendsStored ==
    /\ resp.op \in CommentOps /\ resp.code = 201
    /\ overlapped[resp.body.id]
    /\ Len(resp.body.doc.comments) = 1
    /\ Len(tasks[resp.body.id].comments) = 2

\* C10: the save of a comment append leaves the stored status as the last
\* updateTaskStatus set it, also when that update came after the append's read
SaveKeepsStatus ==
    [][\A c \in Clients :
          (SaveComment(c) /\ lastSet[inflight[c].id].status # "") =>
              tasks'[inflight[c].id].status = lastSet[inflight[c].id].status]_vars

\* C10 witness: a comment append answered 201 with a document whose status is
\* older than the stored one
SavedOverNewerStatus ==
    /\ resp.op \in CommentOps /\ resp.code = 201
    /\ resp.body.doc.status = "Pending"
    /\ tasks[resp.body.id].status = "Completed"
    /\ lastSet[resp.body.id].status = "Completed"

\* The tasks created by e
CreatedBy(e) == {i \in 1..Len(tasks) : tasks[i].creator = e}

\* Task i is before task j by (deadline, createdAt)
KeyBefore(i, j) ==
    \/ tasks[i].deadline < tasks[j].deadline
    \/ tasks[i].deadline = tasks[j].deadline /\ tasks[i].createdAt < tasks[j].createdAt

KeyEqual(i, j) ==
    tasks[i].deadline = tasks[j].deadline /\ tasks[i].createdAt = tasks[j].createdAt

\* ids holds the elements at the positions first..last of an ordering of the set M
\* by (deadline ascending, createdAt ascending): it has one id per position that
\* exists, and the id at a position has fewer tasks before it than its position
\* and at least as many tasks before or equal to it
IsSlice(ids, M, first, last) ==
    /\ Len(ids) = Cardinality({k \in first..last : k <= Cardinality(M)})
    /\ \A j \in 1..Len(ids) : ids[j] \in M
    /\ \A j, k \in 1..Len(ids) : j < k => ids[j] # ids[k] /\ ~KeyBefore(ids[k], ids[j])
    /\ \A j \in 1..Len(ids) :
          /\ Cardinality({x \in M : KeyBefore(x, ids[j])}) <= first + j - 2
          /\ Cardinality({x \in M : KeyBefore(x, ids[j]) \/ KeyEqual(x, ids[j])}) >= first + j - 1

\* A page parameter that is a page number p >= 1: digits only, not all of them 0
IsPageNumber(s) == s # << >> /\ LeadingDigits(s) = s /\ SkipZeros(s) # << >>

RecordsOf(y, ty) == {i \in 1..Len(fetched) : fetched[i].year = y /\ fetched[i].eventType = ty}

RECURSIVE BudgetSum(_)
\* The sum of the totalBudget of the fetched records at the positions in I (a
\* record without totalBudget counts 0)
BudgetSum(I) ==
    IF I = {} THEN 0
    ELSE LET i == CHOOSE x \in I : TRUE
         IN  (IF fetched[i].totalBudget = << >> THEN 0 ELSE fetched[i].totalBudget[1])
             + BudgetSum(I \ {i})

\* The rows of reportData of a year and an event type
RowsOf(y, ty) == {k \in 1..Len(reportData) : reportData[k].year = y /\ reportData[k].eventType = ty}

\* C5: the compiled report has exactly one row per (year, eventType) of the fetched
\* records, with the number of those records and the sum of their totalBudget
OneRowPerYearAndType ==
    phase # "mounted" =>
        /\ \A i \in 1..Len(fetched) :
              /\ Cardinality(RowsOf(fetched[i].year, fetched[i].eventType)) = 1
              /\ \A k \in RowsOf(fetched[i].year, fetched[i].eventType) :
                    /\ reportData[k].eventCount =
                          Cardinality(RecordsOf(fetched[i].year, fetched[i].eventType))
                    /\ reportData[k].totalBudget =
                          BudgetSum(RecordsOf(fetched[i].year, fetched[i].eventType))
        /\ \A k \in 1..Len(reportData) :
              RecordsOf(reportData[k].year, reportData[k].eventType) # {}

\* C5 witness: two firm-wide events of 2024 with budgets 1000 and 500 give one row
\* with eventCount 2 and totalBudget 1500
TwoEventsOneRow ==
    /\ phase = "fetched"
    /\ Len(fetched) = 2
    /\ \A i \in 1..2 : fetched[i].year = 2024 /\ fetched[i].eventType = "firm-wide"
    /\ fetched[1].totalBudget = <<1000>> /\ fetched[2].totalBudget = <<500>>
    /\ Len(reportData) = 1
    /\ reportData[1].eventCount = 2 /\ reportData[1].totalBudget = 1500

\* The budget the chart shows for a team, 0 when it shows none
ChartBudget(team) ==
    IF \E k \in 1..Len(budgetByTeam) : budgetByTeam[k].team = team
    THEN budgetByTeam[CHOOSE k \in 1..Len(budgetByTeam) : budgetByTeam[k].team = team].budget
    ELSE NumberValue(0)

\* C6: the budget shown for a team is the sum of totalBudget of the fetched
\* records of that team
TeamBudgetIsSumOfTeamRecords ==
    phase = "charted" =>
        \A team \in ReportTeams :
            ChartBudget(team) =
                NumberValue(BudgetSum({i \in 1..Len(fetched) : fetched[i].team = team}))


\* C11: a task endpoint answers an otherwise valid request with a malformed
\* identifier with 400, and one with a well-formed identifier of no task with 404
IdErrorsAre400And404 ==
    (req.op \in TaskIdOps /\ req.valid /\ req.answered) =>
        /\ ~IsValidObjectId(req.id) => resp.code = 400
        /\ (IsValidObjectId(req.id) /\ ~TaskExists(req.id)) => resp.code = 404

\* C13: a step changes the status of a task only when it is a status-update
\* request sent by the task's assignee
StatusChangedOnlyByAssignee ==
    [][\A t \in 1..Len(tasks) :
          tasks'[t].status # tasks[t].status =>
              (req'.op = "updateTaskStatus" /\ req'.caller = tasks[t].assignee)]_vars

\* C12: every Event was created by an Employee of role manager or admin
EventsCreatedByManagers ==
    \A e \in 1..Len(events) :
        \E i \in 1..Len(employees) :
            /\ employees[i].email = events[e].creator
            /\ employees[i].role \in {"manager", "admin"}

\* C14: every stored comment has as author the creator or the assignee of its task
CommentAuthorsAreCreatorOrAssignee ==
    \A t \in 1..Len(tasks) :
        \A i \in 1..Len(tasks[t].comments) :
            tasks[t].comments[i].author \in {tasks[t].creator, tasks[t].assignee}

\* The user the middleware attaches for a valid token
UserOf(tok) ==
    [id |-> tok.id, email |-> employees[tok.id].email, name |-> employees[tok.id].name,
     role |-> employees[tok.id].role, team |-> employees[tok.id].team]

\* The tokens a request presents: its cookie, and the one its header carries
PresentedTokens(cookie, header) == {cookie, HeaderCredential(header)}

\* C15: authenticateUser either calls next without answering, with request.user
\* the Employee named by a valid token of the request, or answers 401 without
\* calling next and without setting request.user
NextOrUnauthorized ==
    req.op = "authenticateUser" =>
        \/ /\ req.outcome.next
           /\ req.outcome.code = 0
           /\ \E tok \in PresentedTokens(req.cookie, req.header) :
                 ~InvalidToken(tok) /\ req.outcome.user = UserOf(tok)
        \/ /\ ~req.outcome.next
           /\ req.outcome.code = 401
           /\ req.outcome.user = NoUser

\* C15 witness: next is called for the manager of the cookie's token although the
\* header carries the valid token of another employee
NextForCookieUser ==
    /\ req.op = "authenticateUser"
    /\ req.cookie = Token("good", FALSE, 2)
    /\ req.header = Header("Bearer ", Token("good", FALSE, 3))
    /\ req.outcome.next /\ req.outcome.user.email = "m@x"

\* C16: a submitted payload has availableSlots and ticketPrice non-null only for
\* limited-entry, and a non-empty team only for team-specific
PayloadMatchesEventType ==
    form.mounted /\ form.payload # NoBody =>
        /\ form.payload.availableSlots # << >> => form.payload.eventType = "limited-entry"
        /\ form.payload.ticketPrice # << >> => form.payload.eventType = "limited-entry"
        /\ form.payload.team # "" => form.payload.eventType = "team-specific"

\* C16 witness: a firm-wide payload was submitted from a form that still holds
\* slots, a price and a team typed before the event type was changed
SubmittedAfterTypeChange ==
    /\ form.mounted /\ form.payload # NoBody
    /\ form.eventType = "firm-wide" /\ form.payload.eventType = "firm-wide"
    /\ form.availableSlots = <<"5">> /\ form.ticketPrice = <<"1", "0">> /\ form.team = "Ops"
    /\ form.payload.availableSlots = << >> /\ form.payload.team = ""

\* The tasks assigned to e
AssignedTo(e) == {i \in 1..Len(tasks) : tasks[i].assignee = e}

\* C17: getTasksByAssignee answers 400 without a user-email header, 404 when no
\* task is assigned to e, and otherwise 200 with all the tasks assigned to e
\* ordered by (deadline, createdAt), whatever else the request carries
AssignedListIsAllSorted ==
    req.op = "getTasksByAssignee" =>
        /\ resp.op = "getTasksByAssignee"
        /\ req.email = "" => resp.code = 400
        /\ (req.email # "" /\ AssignedTo(req.email) = {}) => resp.code = 404
        /\ (req.email # "" /\ AssignedTo(req.email) # {}) =>
              /\ resp.code = 200
              /\ IsSlice(resp.body.ids, AssignedTo(req.email), 1, Len(tasks))

\* C17 witness: more than ten tasks are listed for an assignee, in a request
\* that carries the credential of somebody else
LongAssignedList ==
    /\ req.op = "getTasksByAssignee" /\ req.email = "e@x"
    /\ req.header = Header("Bearer ", Token("good", FALSE, 2))
    /\ resp.code = 200 /\ Len(resp.body.ids) > 10
    /\ Cardinality(AssignedTo("m@x")) > 0

\* The ids of a list as a set
IdsOf(ids) == {ids[j] : j \in 1..Len(ids)}

\* C18 as stated: filterTasks returns exactly the tasks whose status is the
\* supplied status and whose assignee is the supplied assignee
FilterByEverySuppliedParameter ==
    req.op = "filterTasks" =>
        /\ Len(resp.body.ids) = Cardinality(IdsOf(resp.body.ids))
        /\ IdsOf(resp.body.ids) =
              {i \in 1..Len(tasks) :
                  /\ req.status # "" => tasks[i].status = req.status
                  /\ req.assignee # "" => tasks[i].assignee = req.assignee}

\* C18 amended: a supplied status filters only when it is Pending, In Progress or
\* Completed; any other supplied status is ignored
FilterBySuppliedParameterOfEnum ==
    req.op = "filterTasks" =>
        /\ resp.code = 200
        /\ Len(resp.body.ids) = Cardinality(IdsOf(resp.body.ids))
        /\ IdsOf(resp.body.ids) =
              {i \in 1..Len(tasks) :
                  /\ req.status \in {"Pending", "In Progress", "Completed"} =>
                        tasks[i].status = req.status
                  /\ req.assignee # "" => tasks[i].assignee = req.assignee}

\* C18 witness: a filter by a status and an assignee returns some but not all of
\* the assignee's tasks
FilteredByStatusAndAssignee ==
    /\ req.op = "filterTasks" /\ req.status = "Completed" /\ req.assignee = "e@x"
    /\ Len(resp.body.ids) > 0
    /\ Len(resp.body.ids) < Cardinality(AssignedTo("e@x"))

\* C19: in every run of handlePayment the steps come in the order create-order,
\* gateway success callback, confirm-payment, isRSVPd: confirm-payment is posted
\* only right after the gateway's success callback, with the identifier the
\* gateway passed, in a run where create-order answered an order and the checkout
\* was opened with that order; isRSVPd is set only right after confirm-payment
\* answered 200
PaymentStepsInOrder ==
    \A r \in 1..Len(pay.runs) :
        LET log == pay.runs[r].log IN
        /\ log[1].step = "create-order"
        /\ \A k \in 1..Len(log) :
              /\ log[k].step \in {"order", "error-json"} => k = 2
              /\ log[k].step = "open" => k = 3
              /\ log[k].step = "success" => k = 4 /\ log[3].step = "open"
              /\ log[k].step = "confirm-payment" =>
                    /\ k = 5
                    /\ log[4] = Step("success", log[k].code)
                    /\ log[2].step = "order"
                    /\ log[3] = Step("open", log[2].code)
              /\ log[k].step \in {"confirm-answered", "confirm-failed"} => k = 6
              /\ log[k].step = "setIsRSVPd" =>
                    k = 7 /\ log[6] = Step("confirm-answered", 200)

\* C20 as stated: a status update answered 200 for task t leaves every field of
\* t but its status, every other task, and every Event and Employee as they were
StatusUpdateChangesOnlyStatus ==
    [][(req'.op = "updateTaskStatus" /\ resp'.code = 200) =>
          /\ tasks' = [tasks EXCEPT ![req'.id].status = tasks'[req'.id].status]
          /\ UNCHANGED <<events, employees>>]_vars

\* C20 amended: a status update answered 200 for task t changes nothing but the
\* status and the updatedAt of t; the other fields of t, every other task, and
\* every Event and Employee are as they were
StatusUpdateChangesStatusAndUpdatedAt ==
    [][(req'.op = "updateTaskStatus" /\ resp'.code = 200) =>
          /\ tasks' = [tasks EXCEPT ![req'.id].status = tasks'[req'.id].status,
                                    ![req'.id].updatedAt = tasks'[req'.id].updatedAt]
          /\ UNCHANGED <<events, employees>>]_vars

\* C20 witness: a status update answered 200 changed the status and the updatedAt
\* of a task that holds a comment, next to another task
StatusUpdatedBesideComments ==
    /\ req.op = "updateTaskStatus" /\ resp.op = "updateTaskStatus" /\ resp.code = 200
    /\ Len(tasks) >= 2
    /\ Len(tasks[req.id].comments) >= 1
    /\ tasks[req.id].status = "In Progress"
    /\ tasks[req.id].status # SeedStatus(req.id)
    /\ tasks[req.id].updatedAt > tasks[req.id].createdAt

\* C21: a status update or a comment append (assignee or creator/admin endpoint)
\* answered 400 or 404 leaves employees, events and tasks as they were
RejectedTaskWritesChangeNothing ==
    [][(/\ req'.op \in {"updateTaskStatus", "addCommentToTask_Assignee", "addCommentToTask"}
        /\ req'.answered
        /\ resp'.code \in {400, 404}) => UNCHANGED store]_vars

\* C21 witness: a creator/admin comment append on an unknown task was answered
\* 404 while the store holds a task with a comment and an updated status
RejectedAppendOnFilledStore ==
    /\ req.op = "addCommentToTask" /\ req.answered /\ req.valid
    /\ resp.op = "addCommentToTask" /\ resp.code = 404
    /\ Len(tasks) = 1
    /\ Len(tasks[1].comments) >= 1
    /\ tasks[1].status = "Completed"

\* C22: when the request has a cookie token (a non-empty cookies.token) the
\* outcome of authenticateUser is decided by the cookie alone: 401 when the cookie
\* token is invalid or expired, even beside a valid bearer token, and next with
\* the cookie's user when it is valid, whatever the Authorization header holds;
\* the header is consulted only when there is no cookie token
CookieTokenBeforeHeader ==
    req.op = "authenticateUser" =>
        IF ~Falsy(req.cookie)
        THEN /\ InvalidToken(req.cookie) =>
                   ~req.outcome.next /\ req.outcome.code = 401
             /\ ~InvalidToken(req.cookie) =>
                   req.outcome.next /\ req.outcome.user = UserOf(req.cookie)
        ELSE /\ req.outcome.next =>
                   /\ ~InvalidToken(HeaderCredential(req.header))
                   /\ req.outcome.user = UserOf(HeaderCredential(req.header))
             /\ ~InvalidToken(HeaderCredential(req.header)) => req.outcome.next

\* C22 witness: an expired cookie token beside the valid bearer token of an
\* existing employee was answered 401
ExpiredCookieBesideValidBearer ==
    /\ req.op = "authenticateUser"
    /\ req.cookie = Token("good", TRUE, 3)
    /\ req.header = Header("Bearer ", Token("good", FALSE, 3))
    /\ Len(employees) = 3
    /\ ~req.outcome.next /\ req.outcome.code = 401

\* A page parameter that is a number: an optional sign and digits only
IsNumeric(s) ==
    LET rest == IF s # << >> /\ Head(s) \in {"-", "+"} THEN Tail(s) ELSE s
    IN  rest # << >> /\ LeadingDigits(rest) = rest

\* The digits of a numeric page parameter, without its sign and leading zeros
PageDigits(s) == SkipZeros(IF Head(s) \in {"-", "+"} THEN Tail(s) ELSE s)

\* The page a request asks for: 1 when the parameter is missing, not a number or
\* zero, otherwise its value
PageAsked(s) ==
    IF ~IsNumeric(s) \/ PageDigits(s) = << >> THEN 1
    ELSE IF Head(s) = "-" THEN 0 - DigitsValue(PageDigits(s))
    ELSE DigitsValue(PageDigits(s))

\* The number of records the creator of a paginated request has
TotalOf(r) ==
    IF r.op = "getTasks"
    THEN Cardinality({i \in 1..Len(tasks) : tasks[i].creator = r.email})
    ELSE Cardinality({i \in 1..Len(events) : events[i].creator = r.email})

\* C23: a paginated creator request with page value p (1 when the parameter is
\* missing, non-numeric or zero) is answered with the records left after
\* skipping (p-1)*10, at most 10 of them
PagesSkipTenPerPage ==
    (req.op \in {"getTasks", "getEventsByCreator"} /\ req.email # "") =>
        LET far == IsNumeric(req.page) /\ Len(PageDigits(req.page)) > 6
            skip == (PageAsked(req.page) - 1) * 10
            left == TotalOf(req) - skip
            listed == IF resp.code = 200 THEN Len(resp.body.ids) ELSE 0
        IN  /\ resp.code = 200 \/ (resp.code = 404 /\ req.op = "getEventsByCreator")
            /\ IF far
               THEN Head(req.page) # "-" /\ TotalOf(req) < 1000000 /\ listed = 0
               ELSE /\ skip >= 0
                    /\ listed = (IF left < 0 THEN 0 ELSE IF left > 10 THEN 10 ELSE left)

\* C24: getTasksByEventID answers 400 when eventID is absent or malformed, and
\* otherwise 200 with exactly the tasks whose eventID is the parameter, each once,
\* whether or not an Event with that id is stored
TasksOfEventWithoutEventCheck ==
    req.op = "getTasksByEventID" =>
        IF req.id \in {NoId, BadId}
        THEN resp.code = 400
        ELSE /\ resp.code = 200
             /\ {resp.body.ids[k] : k \in 1..Len(resp.body.ids)}
                   = {i \in 1..Len(tasks) : tasks[i].eventID = req.id}
             /\ \A j, k \in 1..Len(resp.body.ids) : j # k => resp.body.ids[j] # resp.body.ids[k]

\* C24 witness: the tasks of an event that is not stored were listed, and a
\* well-formed id no task refers to would list nothing
ListedTasksOfMissingEvent ==
    /\ req.op = "getTasksByEventID"
    /\ req.id = 3 /\ Len(events) = 2 /\ Len(tasks) = 2
    /\ resp.code = 200 /\ resp.body.ids = << 2 >>

\* Every task of the form that has a deadline has it strictly before the event date
DeadlinesBeforeDate(f) ==
    \A i \in 1..Len(f.tasks) :
        f.tasks[i].deadline # NullDate => f.tasks[i].deadline < f.date

\* C25: a call of handleSubmit posts the create-event request, with the form's
\* fields, exactly when every task deadline is strictly before the event date and
\* a token is stored; otherwise it posts nothing
DeadlinesAndTokenGuardSubmit ==
    [][(form.mounted /\ form'.outcome # "") =>
          IF DeadlinesBeforeDate(form) /\ form.token
          THEN form'.outcome = "sent" /\ form'.payload = NewEventPayload(form)
          ELSE form'.outcome # "sent" /\ form'.payload = form.payload]_vars

\* C25 witness: after an event was posted, a submit of a form with one task
\* deadline before and one on the event date ended in the deadline alert
SubmitStoppedByDeadlineOnDate ==
    /\ form.mounted /\ form.outcome = "deadline alert"
    /\ form.payload # NoBody
    /\ Len(form.tasks) = 2
    /\ form.date = 2 /\ form.tasks[1].deadline = 1 /\ form.tasks[2].deadline = 2
    /\ form.token

\* A text made of digits only (the empty text included)
OnlyDigits(text) == LeadingDigits(text) = text

\* C26: the numeric fields of the form (totalBudget, availableSlots, ticketPrice
\* and each task budget) hold digits only, and a posted event holds a number for
\* totalBudget and for each task budget
NumberFieldsHoldDigits ==
    form.mounted =>
        /\ OnlyDigits(form.totalBudget)
        /\ OnlyDigits(form.availableSlots)
        /\ OnlyDigits(form.ticketPrice)
        /\ \A i \in 1..Len(form.tasks) : OnlyDigits(form.tasks[i].budget)
        /\ form.payload # NoBody =>
              /\ form.payload.totalBudget # << >>
              /\ \A i \in 1..Len(form.payload.tasks) : form.payload.tasks[i].budget # << >>

\* C27: the list of NotificationPanel holds no task entry whose status is Completed
NoCompletedTaskListed ==
    panel.mounted =>
        \A k \in 1..Len(panel.list) :
            panel.list[k].kind = "task" => panel.list[k].status # "Completed"

\* C27 witness: the user has a Completed task on the server, and the list shows
\* a fetched or pushed task with a pushed comment next to a pushed event
ActiveTaskAndEventListed ==
    /\ panel.mounted
    /\ \E i \in 1..Len(tasks) : tasks[i].assignee = panel.user /\ tasks[i].status = "Completed"
    /\ panel.fetches = << >>
    /\ \E k \in 1..Len(panel.list) : panel.list[k].kind = "task" /\ panel.list[k].comments = 1
    /\ \E k \in 1..Len(panel.list) : panel.list[k].kind = "event"

\* C28: a task the panel added to its list on a newTask push stays in the list
\* (until the panel unmounts or the user changes)
PushedTaskStaysListed ==
    panel.mounted => \A id \in panel.added : IsDuplicate(panel.list, id)

\* C29: whenever lastFetchedEventID is an event id E, selectedEventTasks is the
\* task list the server returns for E
DisplayedTasksAreOfLastFetched ==
    (ctx.mounted /\ ctx.lastFetchedEventID # NoEvent) =>
        ctx.selectedEventTasks = FindByEvent(ctx.lastFetchedEventID, Len(tasks))

\* C30: at most one chat request is outstanding, and loading is true exactly
\* while one is
AtMostOneChatRequest ==
    chat.mounted =>
        /\ chat.outstanding <= 1
        /\ chat.loading <=> chat.outstanding > 0

====
